---- MODULE Spec2Model ----
(***************************************************************************)
(* Smart alarm local API: the alarm service (services/alarm_service.py),   *)
(* its control surface (routes/alarm_routes.py), the background monitor    *)
(* loop (routes/__init__.py) and the device-twin service                   *)
(* (services/iothub_service.py), as a state machine over a wall clock.     *)
(*                                                                         *)
(* Time is counted in seconds since the midnight that starts day 0 of the  *)
(* model; one second is the clock's resolution, so "exactly at the wake    *)
(* instant" is one instant and every later instant is strictly after it.   *)
(* A Python value that may be a string, None or a number is a record       *)
(* [t |-> type tag, v |-> sequence of characters].                         *)
(*                                                                         *)
(* Left out: the Fitbit fetch and the predictor (their result is an input  *)
(* of the monitor), the MQTT broker and the cloud endpoint (what is        *)
(* published to them is not read back by the alarm), and the diagnostic    *)
(* last_fetch_result of the routes.                                        *)
(***************************************************************************)
EXTENDS Integers, Sequences, FiniteSets, TLC

VARIABLES
    now,            \* the wall clock, datetime.now()
    alarm_config,   \* alarm_service.alarm_config
    observe,        \* whether ret records the calls (fixed when the process starts)
    ret,            \* the call made at this instant, if it is recorded, and what it returned
    events,         \* the alarm_events table: its number of rows and its newest row
    bg_thread,      \* routes._background_fetch_thread: "none", "alive", "dead"
    stop_flag,      \* routes._stop_background_fetch
    config_store,   \* services/config.py config_store, the keys the model reads
    twin,           \* iothub_service module state
    cycle_wake,     \* history: the wake datetime of the current arming, 0 when there is none
    inflight,       \* the calls that are between two of their steps, and what they hold
    controller      \* the SmartAlarmController of the edge device, and its pending timers

vars == <<now, alarm_config, observe, ret, events, bg_thread, stop_flag,
          config_store, twin, cycle_wake, inflight, controller>>

----------------------------------------------------------------------------
(* Bounds of the model *)

\* The number of rows the alarm_events table may reach in a run.
MaxEvents == 3

\* The clock stops at the MaxInstant-th instant of Instants.
MaxInstant == 8

\* The process with a device connection string starts at this instant of
\* Instants, and its clock stops at the TwinLastInstant-th.
TwinFirstInstant == 4
TwinLastInstant == 5

\* The number of reported-property patches the hub takes in a run.
MaxSends == 1

\* The clock of the process whose threads are taken step by step starts at
\* this instant of Instants and stops at the ThreadsLastInstant-th.
ThreadsFirstInstant == 6
ThreadsLastInstant == 7

\* The number of reported-property patches the hub takes in a run of it.
MaxFlightSends == 2

\* The number of invocations of the patch handler the SDK runs at once.
MaxHandlers == 2

\* The count of the sends begun in a minute is followed up to this number.
MaxAttempts == 5

\* The number of callers that can be inside start_background_fetch at once.
MaxStarters == 2

\* The process whose start_background_fetch is taken in steps starts at this
\* instant of Instants.
StartFirstInstant == 7

\* A snoozed alarm is examined for the snooze lengths 1..MaxSnoozeChecked minutes.
MaxSnoozeChecked == 31

----------------------------------------------------------------------------
(* Python values *)

PyStr(s) == [t |-> "str", v |-> s]
PyNone == [t |-> "none", v |-> <<>>]
PyInt(s) == [t |-> "int", v |-> s]

\* bool(x) for the values above: None, "" and 0 are falsy.
Truthy(x) ==
    CASE x.t = "none" -> FALSE
      [] x.t = "str"  -> x.v # <<>>
      [] OTHER        -> x.v # <<"0">>

Digits == <<"0", "1", "2", "3", "4", "5", "6", "7", "8", "9">>

IsDigit(c) == \E i \in 1..10 : Digits[i] = c

DigitVal(c) == (CHOOSE i \in 1..10 : Digits[i] = c) - 1

SecondsPerMinute == 60
SecondsPerDay == 24 * 60 * 60

(* datetime.strptime(s, "%H:%M"): the format compiles to the regular        *)
(* expression (2[0-3]|[0-1]\d|\d):([0-5]\d|\d), matched at the start of s;  *)
(* no match, or characters left after the match, is a ValueError, and an    *)
(* argument that is no string a TypeError.                                  *)
HourLen(s) ==
    IF Len(s) >= 2 /\ s[1] = "2" /\ s[2] \in {"0", "1", "2", "3"} /\ Len(s) >= 3 /\ s[3] = ":"
    THEN 2
    ELSE IF Len(s) >= 2 /\ s[1] \in {"0", "1"} /\ IsDigit(s[2]) /\ Len(s) >= 3 /\ s[3] = ":"
    THEN 2
    ELSE IF Len(s) >= 2 /\ IsDigit(s[1]) /\ s[2] = ":"
    THEN 1
    ELSE 0

MinuteLen(s, p) ==
    IF Len(s) >= p + 1 /\ s[p] \in {"0", "1", "2", "3", "4", "5"} /\ IsDigit(s[p + 1])
    THEN 2
    ELSE IF Len(s) >= p /\ IsDigit(s[p])
    THEN 1
    ELSE 0

Number(s, p, n) ==
    IF n = 2 THEN 10 * DigitVal(s[p]) + DigitVal(s[p + 1]) ELSE DigitVal(s[p])

strptime(x) ==
    IF x.t # "str" THEN [exc |-> "TypeError", h |-> 0, m |-> 0]
    ELSE LET s == x.v
             hl == HourLen(s)
             ml == IF hl = 0 THEN 0 ELSE MinuteLen(s, hl + 2)
         IN IF hl = 0 \/ ml = 0 \/ hl + 1 + ml # Len(s)
            THEN [exc |-> "ValueError", h |-> 0, m |-> 0]
            ELSE [exc |-> "none", h |-> Number(s, 1, hl), m |-> Number(s, hl + 2, ml)]

TwoDigits(n) == <<Digits[(n \div 10) + 1], Digits[(n % 10) + 1]>>

\* dt.strftime("%H:%M")
strftime(dt) ==
    LET mod == (dt % SecondsPerDay) \div SecondsPerMinute
    IN PyStr(TwoDigits(mod \div 60) \o <<":">> \o TwoDigits(mod % 60))

\* datetime.combine(now.date(), wake_time)
combine(t, p) == (t \div SecondsPerDay) * SecondsPerDay + (p.h * 60 + p.m) * SecondsPerMinute

\* dt - timedelta(minutes=w) and dt + timedelta(minutes=w)
minus_minutes(dt, w) == dt - w * SecondsPerMinute
plus_minutes(dt, w) == dt + w * SecondsPerMinute

----------------------------------------------------------------------------
(* services/alarm_service.py *)

NoReason == "none"

\* The module-level alarm_config of a freshly imported alarm_service.
InitialAlarmConfig ==
    [enabled |-> FALSE, wake_time |-> PyNone, window_minutes |-> 30,
     triggered |-> FALSE, trigger_reason |-> NoReason, last_check |-> 0]

(* Each function of the service is an operator from the configuration (and  *)
(* the clock) to [cfg |-> the configuration afterwards, ret |-> what the    *)
(* call returns]; ret = "raised" is an exception leaving the function.      *)
\* set_alarm without the reset of triggered and trigger_reason.
set_alarm_keeps_triggered(cfg, wake_time_str, window_minutes) ==
    LET p == strptime(wake_time_str)
    IN CASE p.exc = "none" ->
              [cfg |-> [cfg EXCEPT !.wake_time = wake_time_str,
                                   !.window_minutes = window_minutes,
                                   !.enabled = TRUE],
               ret |-> "true"]
         [] p.exc = "ValueError" -> [cfg |-> cfg, ret |-> "false"]
         [] OTHER -> [cfg |-> cfg, ret |-> "raised"]

set_alarm(cfg, wake_time_str, window_minutes) ==
    LET p == strptime(wake_time_str)
    IN CASE p.exc = "none" ->
              [cfg |-> [cfg EXCEPT !.wake_time = wake_time_str,
                                   !.window_minutes = window_minutes,
                                   !.enabled = TRUE,
                                   !.triggered = FALSE,
                                   !.trigger_reason = NoReason],
               ret |-> "true"]
         [] p.exc = "ValueError" -> [cfg |-> cfg, ret |-> "false"]
         [] OTHER -> [cfg |-> cfg, ret |-> "raised"]

\* disable_alarm that forgets the wake time as well.
disable_alarm_forgets(cfg) ==
    [cfg EXCEPT !.enabled = FALSE, !.triggered = FALSE, !.trigger_reason = NoReason,
                !.wake_time = PyNone]

disable_alarm(cfg) ==
    [cfg EXCEPT !.enabled = FALSE, !.triggered = FALSE, !.trigger_reason = NoReason]

dismiss_alarm(cfg) ==
    [cfg EXCEPT !.triggered = FALSE, !.trigger_reason = NoReason]

\* snooze_alarm without the test of triggered.
snooze_alarm_untriggered(cfg, t, minutes) ==
    LET new_wake == strftime(plus_minutes(t, minutes))
    IN [cfg |-> [cfg EXCEPT !.triggered = FALSE,
                            !.trigger_reason = NoReason,
                            !.wake_time = new_wake],
        ret |-> new_wake]

\* snooze_alarm that rounds the new wake time up to the next whole minute.
snooze_alarm_rounds_up(cfg, t, minutes) ==
    IF cfg.triggered
    THEN LET new_wake == strftime(plus_minutes(t, minutes) + SecondsPerMinute - 1)
         IN [cfg |-> [cfg EXCEPT !.triggered = FALSE,
                                 !.trigger_reason = NoReason,
                                 !.wake_time = new_wake],
             ret |-> new_wake]
    ELSE [cfg |-> cfg, ret |-> PyNone]

\* ret is the new wake time, or None.
snooze_alarm(cfg, t, minutes) ==
    IF cfg.triggered
    THEN LET new_wake == strftime(plus_minutes(t, minutes))
         IN [cfg |-> [cfg EXCEPT !.triggered = FALSE,
                                 !.trigger_reason = NoReason,
                                 !.wake_time = new_wake],
             ret |-> new_wake]
    ELSE [cfg |-> cfg, ret |-> PyNone]

\* sleep_quality.lower(), on the labels the model draws from.
lower(q) == IF q = "Fair" THEN "fair" ELSE IF q = "POOR" THEN "poor" ELSE q

\* The light-sleep condition without the quality label.
light_condition_flag_only(sleep_quality, is_light_sleep) == is_light_sleep

\* is_light_sleep or (sleep_quality and sleep_quality.lower() in ['fair', 'poor'])
light_condition(sleep_quality, is_light_sleep) ==
    is_light_sleep \/ (sleep_quality # "none" /\ lower(sleep_quality) \in {"fair", "poor"})

\* The wake_datetime without the roll to the next day.
check_wake_datetime_today(t, p) == combine(t, p)

\* The wake_datetime check_alarm_trigger compares against, for a parsed wake time p.
check_wake_datetime(t, p) ==
    LET wake_datetime == combine(t, p)
    IN IF wake_datetime < t THEN wake_datetime + SecondsPerDay ELSE wake_datetime

\* The trigger decision of check_alarm_trigger for an alarm with a parsed wake time.
trigger_decision(checked, t, p, sleep_quality, is_light_sleep) ==
    LET wake_datetime == check_wake_datetime(t, p)
        window_start == minus_minutes(wake_datetime, checked.window_minutes)
    IN IF t >= wake_datetime
       THEN [cfg |-> [checked EXCEPT !.triggered = TRUE,
                                     !.trigger_reason = "wake_time_reached"],
             ret |-> "wake_time_reached"]
       ELSE IF window_start <= t /\ t < wake_datetime
               /\ light_condition(sleep_quality, is_light_sleep)
       THEN [cfg |-> [checked EXCEPT !.triggered = TRUE,
                                     !.trigger_reason = "light_sleep_detected"],
             ret |-> "light_sleep_detected"]
       ELSE [cfg |-> checked, ret |-> "none"]

\* check_alarm_trigger without the test of triggered.
check_alarm_trigger_retriggers(cfg, t, sleep_quality, is_light_sleep) ==
    IF ~cfg.enabled THEN [cfg |-> cfg, ret |-> "none"]
    ELSE IF ~Truthy(cfg.wake_time) THEN [cfg |-> cfg, ret |-> "none"]
    ELSE LET checked == [cfg EXCEPT !.last_check = t]
             p == strptime(cfg.wake_time)
         IN IF p.exc # "none" THEN [cfg |-> checked, ret |-> "none"]
            ELSE trigger_decision(checked, t, p, sleep_quality, is_light_sleep)

\* check_alarm_trigger that stamps last_check before its early returns.
check_alarm_trigger_stamps(cfg, t, sleep_quality, is_light_sleep) ==
    LET checked == [cfg EXCEPT !.last_check = t]
        p == strptime(cfg.wake_time)
    IN IF ~cfg.enabled \/ cfg.triggered THEN [cfg |-> checked, ret |-> "none"]
       ELSE IF ~Truthy(cfg.wake_time) THEN [cfg |-> checked, ret |-> "none"]
       ELSE IF p.exc # "none" THEN [cfg |-> checked, ret |-> "none"]
       ELSE trigger_decision(checked, t, p, sleep_quality, is_light_sleep)

\* ret is "none" (None) or the trigger_reason of the trigger result returned.
check_alarm_trigger(cfg, t, sleep_quality, is_light_sleep) ==
    IF ~cfg.enabled \/ cfg.triggered THEN [cfg |-> cfg, ret |-> "none"]
    ELSE IF ~Truthy(cfg.wake_time) THEN [cfg |-> cfg, ret |-> "none"]
    ELSE LET checked == [cfg EXCEPT !.last_check = t]
             p == strptime(cfg.wake_time)
         IN IF p.exc # "none" THEN [cfg |-> checked, ret |-> "none"]
            ELSE trigger_decision(checked, t, p, sleep_quality, is_light_sleep)

\* The wake_datetime of a get_alarm_status that never rolls to the next day.
status_wake_datetime_today(cfg, t, p) == combine(t, p)

\* The wake_datetime get_alarm_status derives, for a parsed wake time p.
status_wake_datetime(cfg, t, p) ==
    LET wake_datetime == combine(t, p)
    IN IF wake_datetime < t /\ ~cfg.triggered
       THEN wake_datetime + SecondsPerDay ELSE wake_datetime

\* The keys get_alarm_status adds to a copy of alarm_config; a key that is
\* not set is PyNone, "absent" or -1.
NoStatus ==
    [window_start |-> PyNone, window_end |-> PyNone, in_window |-> "absent",
     minutes_until_wake |-> -1]

get_alarm_status(cfg, t) ==
    IF cfg.enabled /\ Truthy(cfg.wake_time)
    THEN LET p == strptime(cfg.wake_time)
         IN IF p.exc # "none" THEN NoStatus
            ELSE LET wake_datetime == status_wake_datetime(cfg, t, p)
                     window_start == minus_minutes(wake_datetime, cfg.window_minutes)
                 IN [window_start |-> strftime(window_start),
                     window_end |-> strftime(wake_datetime),
                     in_window |-> IF window_start <= t /\ t < wake_datetime
                                   THEN "true" ELSE "false",
                     minutes_until_wake |->
                         IF t < wake_datetime
                         THEN (wake_datetime - t) \div SecondsPerMinute ELSE -1]
    ELSE NoStatus

----------------------------------------------------------------------------
(* services/iothub_service.py *)

(* A dict of reported properties is a function from its keys to Python     *)
(* values. _pending_report is None or a dict; the code only tests its      *)
(* truth and None and {} are both false, so both are EmptyDict here.       *)
EmptyDict == <<>>

dict_update(a, b) ==
    [k \in (DOMAIN a) \cup (DOMAIN b) |-> IF k \in DOMAIN b THEN b[k] ELSE a[k]]

RECURSIVE NumStr(_)
NumStr(n) == IF n < 10 THEN <<Digits[n + 1]>> ELSE NumStr(n \div 10) \o <<Digits[(n % 10) + 1]>>

PyBool(b) == [t |-> "bool", v |-> IF b THEN <<"1">> ELSE <<"0">>]
PyNum(n) == PyInt(NumStr(n))
\* time.strftime('%Y-%m-%dT%H:%M:%SZ', time.gmtime()) at clock t
PyTime(t) == [t |-> "time", v |-> NumStr(t)]

MIN_REPORT_INTERVAL == 20

\* The reports a minute that the comment at _MIN_REPORT_INTERVAL allows.
PerMinuteCap == 3

(* The module state: IOTHUB_AVAILABLE (with a usable connection string),   *)
(* device_client (is it not None), _last_report_time, _pending_report,     *)
(* _initial_sync_done, stop_twin_listener, the keepalive thread ("none",   *)
(* "alive", "dead"), and the reported-property patches the hub received    *)
(* (how many, and the newest).                                             *)
InitialTwin(available) ==
    [available |-> available, device_client |-> FALSE, last_report_time |-> 0,
     pending |-> EmptyDict, initial_sync_done |-> FALSE,
     stop_twin_listener |-> FALSE, listener |-> "none",
     sent |-> [n |-> 0, last |-> EmptyDict]]

\* A call that is not in its network send, and one that is: the properties
\* it sends and the current_time it read before the send.
NoSend == [busy |-> FALSE, to_send |-> EmptyDict, current_time |-> 0]
Sending(to_send, current_time) ==
    [busy |-> TRUE, to_send |-> to_send, current_time |-> current_time]

\* device_client.patch_twin_reported_properties(properties), when it succeeds.
patch_twin_reported_properties(sent, properties) == [n |-> sent.n + 1, last |-> properties]

(* report_twin_properties(properties, skip_mqtt) at clock t, from line 386  *)
(* on; send_ok says whether patch_twin_reported_properties succeeds if it   *)
(* is called. The MQTT branch before it (lines 373-384) publishes to the    *)
(* broker, an external collaborator, and is not modelled.                   *)
report_twin_properties(tw, t, properties, skip_mqtt, send_ok) ==
    IF t - tw.last_report_time < MIN_REPORT_INTERVAL
    THEN [tw EXCEPT !.pending = dict_update(tw.pending, properties)]
    ELSE IF tw.device_client
    THEN LET to_send == dict_update(properties, tw.pending)
         IN IF send_ok
            THEN [tw EXCEPT !.pending = EmptyDict,
                            !.sent = patch_twin_reported_properties(@, to_send),
                            !.last_report_time = t]
            ELSE [tw EXCEPT !.pending = EmptyDict]
    ELSE tw

\* _do_report_twin(properties): a send that no rate limit holds back.
do_report_twin(tw, t, properties, send_ok) ==
    IF tw.device_client /\ send_ok
    THEN [tw EXCEPT !.sent = patch_twin_reported_properties(@, properties),
                    !.last_report_time = t]
    ELSE tw

(* report_twin_properties in two steps, for a caller other threads run      *)
(* beside. report_begin is lines 386-406, up to the network call: the       *)
(* properties are queued, or to_send is built and _pending_report emptied;  *)
(* report_end is lines 408-413, the outcome of the call: only a success     *)
(* stores the current_time read at line 387.                                *)
report_begin(tw, t, properties) ==
    IF t - tw.last_report_time < MIN_REPORT_INTERVAL
    THEN [tw |-> [tw EXCEPT !.pending = dict_update(tw.pending, properties)],
          send |-> NoSend]
    ELSE IF tw.device_client
    THEN [tw |-> [tw EXCEPT !.pending = EmptyDict],
          send |-> Sending(dict_update(properties, tw.pending), t)]
    ELSE [tw |-> tw, send |-> NoSend]

report_end(tw, send, send_ok) ==
    IF send_ok
    THEN [tw EXCEPT !.sent = patch_twin_reported_properties(@, send.to_send),
                    !.last_report_time = send.current_time]
    ELSE tw

(* The flush of _keepalive_loop in two steps: lines 345-349, the snapshot   *)
(* taken and _pending_report emptied, and lines 350-354, the outcome of the *)
(* network call: a failure stores the snapshot back.                        *)
flush_due(tw, t) ==
    tw.device_client /\ tw.pending # EmptyDict
    /\ t - tw.last_report_time >= MIN_REPORT_INTERVAL

flush_begin(tw, t) ==
    [tw |-> [tw EXCEPT !.pending = EmptyDict], send |-> Sending(tw.pending, t)]

flush_end(tw, send, send_ok) ==
    IF send_ok
    THEN [tw EXCEPT !.sent = patch_twin_reported_properties(@, send.to_send),
                    !.last_report_time = send.current_time]
    ELSE [tw EXCEPT !.pending = send.to_send]

\* update_alarm_twin(enabled, wake_time, window_minutes); window_minutes = 0
\* stands for an argument left None as well, both being false.
update_alarm_twin(tw, t, enabled, wake_time, window_minutes, send_ok) ==
    LET base == [k \in {"alarm_enabled", "capture_enabled", "last_sync"} |->
                    IF k = "last_sync" THEN PyTime(t) ELSE PyBool(enabled)]
        with_time == IF Truthy(wake_time)
                     THEN dict_update(base, [k \in {"alarm_time"} |-> wake_time]) ELSE base
        properties == IF window_minutes # 0
                      THEN dict_update(with_time,
                               [k \in {"smart_wakeup_window"} |-> PyNum(window_minutes)])
                      ELSE with_time
    IN report_twin_properties(tw, t, properties, FALSE, send_ok)

(* A desired-properties patch: the keys it carries, and the value of each  *)
(* key it carries (the value of a key it does not carry is not read).      *)
Patch(keys, alarm_time, window, enabled) ==
    [keys |-> keys, alarm_time |-> alarm_time, smart_wakeup_window |-> window,
     capture_enabled |-> enabled, alarm_enabled |-> enabled,
     cloud_enabled |-> enabled, monitoring_active |-> enabled]

AlarmKeys == {"alarm_time", "smart_wakeup_window", "capture_enabled", "alarm_enabled"}

\* The alarm_config on_twin_desired_properties_patch leaves, lines 154-171.
patch_alarm_config(cfg, patch) ==
    LET has(k) == k \in patch.keys
        alarm_time_set == has("alarm_time") /\ Truthy(patch.alarm_time)
        new_time == IF alarm_time_set THEN patch.alarm_time ELSE cfg.wake_time
        new_window == IF has("smart_wakeup_window") /\ patch.smart_wakeup_window # 0
                      THEN patch.smart_wakeup_window ELSE cfg.window_minutes
        new_enabled == IF has("alarm_enabled") THEN patch.alarm_enabled
                       ELSE IF has("capture_enabled") THEN patch.capture_enabled
                       ELSE IF alarm_time_set THEN TRUE ELSE cfg.enabled
    IN [cfg EXCEPT !.wake_time = new_time, !.window_minutes = new_window,
                   !.enabled = new_enabled, !.triggered = FALSE]

\* The reported dict the handler has built at line 186, last_sync not yet
\* added, for the alarm_config cfg1 it leaves.
patch_reported(cfg1, patch) ==
    LET filtered == patch.keys \ {"$version"}
        r1 == [k \in filtered \cap {"cloud_enabled", "monitoring_active"} |->
                 IF k = "cloud_enabled" THEN PyBool(patch.cloud_enabled)
                 ELSE PyBool(patch.monitoring_active)]
    IN IF filtered \cap AlarmKeys # {}
       THEN dict_update(r1,
              [k \in {"alarm_enabled", "alarm_time", "smart_wakeup_window"} |->
                 CASE k = "alarm_enabled" -> PyBool(cfg1.enabled)
                   [] k = "alarm_time" -> cfg1.wake_time
                   [] OTHER -> PyNum(cfg1.window_minutes)])
       ELSE r1

(* on_twin_desired_properties_patch(patch, is_initial_sync) at clock t, as  *)
(* [cfg, cs, tw]: alarm_config, config_store and the module state after it. *)
(* twin_update_callback is None: nothing in the repository passes one.      *)
on_twin_desired_properties_patch(cfg, cs, tw, t, patch, is_initial_sync, send_ok) ==
    LET filtered == patch.keys \ {"$version"}
        has(k) == k \in filtered
        alarm_changed == filtered \cap AlarmKeys # {}
        cs1 == [cs EXCEPT
                  !.cloud_enabled = IF has("cloud_enabled") THEN patch.cloud_enabled ELSE @,
                  !.monitoring_active =
                      IF has("monitoring_active") THEN patch.monitoring_active ELSE @]
        cfg1 == IF alarm_changed THEN patch_alarm_config(cfg, patch) ELSE cfg
        r2 == patch_reported(cfg1, patch)
        reported == dict_update(r2, [k \in {"last_sync"} |-> PyTime(t)])
        tw1 == IF DOMAIN r2 # {} /\ ~is_initial_sync
               THEN report_twin_properties(tw, t, reported, TRUE, send_ok) ELSE tw
    IN IF filtered = {}
       THEN [cfg |-> cfg, cs |-> cs, tw |-> tw]
       ELSE [cfg |-> cfg1, cs |-> cs1, tw |-> [tw1 EXCEPT !.initial_sync_done = TRUE]]

----------------------------------------------------------------------------
(* Inputs of the model *)

At(day, h, m, sec) == day * SecondsPerDay + (h * 60 + m) * SecondsPerMinute + sec

\* The instants the clock visits, in order: around the midnight between day 1
\* and day 2, then the next morning.
Instants ==
    << At(1, 23, 0, 0), At(1, 23, 40, 0), At(1, 23, 50, 0), At(2, 0, 5, 0), At(2, 0, 10, 0),
       At(2, 0, 10, 1), At(2, 0, 19, 0), At(2, 6, 50, 0), At(2, 7, 0, 0), At(2, 7, 0, 1),
       At(2, 23, 50, 0), At(3, 0, 10, 0) >>

\* Well-formed "HH:MM" strings.
WellFormedTimes == {PyStr(<<"0", "0", ":", "1", "0">>), PyStr(<<"0", "7", ":", "0", "0">>)}

\* Strings strptime takes that are not zero-padded.
UnpaddedTimes == {PyStr(<<"0", ":", "1", "0">>)}

\* Well-formed times at the ends of the day.
BoundaryTimes == {PyStr(<<"0", "0", ":", "0", "0">>), PyStr(<<"2", "3", ":", "5", "9">>)}

\* Malformed wake times: strings that are no time, the empty string, None, a number.
MalformedTimes ==
    {PyStr(<<"2", "4", ":", "0", "0">>), PyStr(<<"0", "7", ":", "6", "0">>), PyStr(<<>>),
     PyNone, PyInt(<<"7", "0", "0">>)}

WakeTimeInputs == WellFormedTimes \cup UnpaddedTimes \cup MalformedTimes

Windows == {15, 30}

SnoozeMinutes == {9, 25}

\* The labels predict_local returns, and None for a request without the field.
PredictorLabels == {"excellent", "good", "fair", "poor", "unknown", "error"}
QualityInputs == PredictorLabels \cup {"none", "Fair"}

\* What the fetch and the predictor give the monitor in an iteration.
MonitorSamples == {"fair", "poor", "good", "unknown", "fetch_error", "no_session"}

----------------------------------------------------------------------------
(* State *)

NoCall == [op |-> "none", val |-> "none", time |-> PyNone, status |-> NoStatus]

\* What ret becomes when a call returns r.
Returned(r) == IF observe THEN r ELSE NoCall

Call(op, val) == Returned([op |-> op, val |-> val, time |-> PyNone, status |-> NoStatus])

(* An invocation of on_twin_desired_properties_patch: "idle" (none), *)
(* "accepted" (past the tests of lines 107 and 112 with its patch) or       *)
(* "sending" (in the network send of its acknowledgment).                   *)
IdleHandler == [pc |-> "idle", patch |-> Patch({}, PyNone, 0, TRUE), send |-> NoSend]

(* _reporting_from_callback; the send of a route's report and of the        *)
(* keepalive thread's flush, when one is in flight; the invocations of the  *)
(* patch handler the SDK runs at once; the callers of                       *)
(* start_background_fetch that are past its test of the thread; and the     *)
(* monitor threads that are alive but that _background_fetch_thread no      *)
(* longer refers to; the count of the sends begun in the last minute; and  *)
(* the reason a check_alarm_trigger that is between its decision and its    *)
(* write of triggered has decided on ("none": no such call).                *)
InitialInflight ==
    [reporting_from_callback |-> FALSE,
     route |-> NoSend, flush |-> NoSend,
     handlers |-> [h \in 1..MaxHandlers |-> IdleHandler],
     starting |-> 0, unreferenced |-> 0,
     attempts |-> [n |-> 0, window_start |-> 0],
     checking |-> "none"]

(* The calls of device_client.patch_twin_reported_properties the callers    *)
(* taken step by step have made in the current window of a minute, as a     *)
(* history of the run: the program keeps no such count. A call at clock t   *)
(* opens a new window when the current one is a minute old; the count is    *)
(* not followed beyond MaxAttempts.                                         *)
count_attempt(attempts, t) ==
    IF t - attempts.window_start >= SecondsPerMinute
    THEN [n |-> 1, window_start |-> t]
    ELSE [attempts EXCEPT !.n = IF @ < MaxAttempts THEN @ + 1 ELSE @]

\* self.max_snoozes
max_snoozes == 3

\* The default of duration_minutes in snooze(self, duration_minutes=5).
DefaultSnoozeMinutes == 5

(* SmartAlarmController.__init__: alarm_active and snooze_count; timers are *)
(* the threading.Timer objects that were started and have not fired, each   *)
(* by the instant it is due.                                                *)
InitialController == [alarm_active |-> FALSE, snooze_count |-> 0, timers |-> <<>>]

\* SmartAlarmController.trigger_alarm()
trigger_alarm(ctl) == [ctl EXCEPT !.alarm_active = TRUE]

\* SmartAlarmController.stop_alarm()
stop_alarm(ctl) == [ctl EXCEPT !.alarm_active = FALSE]

\* A snooze without the test of snooze_count.
snooze_unlimited(ctl, t, duration_minutes) ==
    [ctl |-> [stop_alarm(ctl) EXCEPT
                 !.snooze_count = IF @ <= max_snoozes THEN @ + 1 ELSE @,
                 !.timers = IF Len(@) <= max_snoozes
                            THEN Append(@, t + duration_minutes * SecondsPerMinute) ELSE @],
     ret |-> "true"]

\* SmartAlarmController.snooze(duration_minutes) at clock t; ret is the bool returned.
snooze(ctl, t, duration_minutes) ==
    IF ctl.snooze_count >= max_snoozes
    THEN [ctl |-> ctl, ret |-> "false"]
    ELSE [ctl |-> [stop_alarm(ctl) EXCEPT
                      !.snooze_count = @ + 1,
                      !.timers = Append(@, t + duration_minutes * SecondsPerMinute)],
          ret |-> "true"]

InitialConfigStore(fitbit) ==
    [fitbit_connected |-> fitbit, cloud_enabled |-> TRUE, monitoring_active |-> FALSE,
     iothub_connected |-> FALSE]

\* The first instance of the wake time of cfg at or after t; 0 when cfg is not armed.
CycleWake(cfg, t) ==
    IF cfg.enabled /\ Truthy(cfg.wake_time) /\ strptime(cfg.wake_time).exc = "none"
    THEN LET today == combine(t, strptime(cfg.wake_time))
         IN IF today >= t THEN today ELSE today + SecondsPerDay
    ELSE 0

InitCommon ==
    /\ alarm_config = InitialAlarmConfig
    /\ ret = NoCall
    /\ events = [n |-> 0, last |-> "none"]
    /\ bg_thread = "none"
    /\ stop_flag = FALSE
    /\ cycle_wake = 0
    /\ config_store = InitialConfigStore(TRUE)
    /\ inflight = InitialInflight
    /\ controller = InitialController

\* The process without a device connection string: IOTHUB_AVAILABLE is False.
Init == InitCommon /\ observe = TRUE /\ now = Instants[1] /\ twin = InitialTwin(FALSE)

----------------------------------------------------------------------------
(* The clock *)

Tick(last) ==
    /\ \E i \in 1..(last - 1) :
          /\ i < Len(Instants)
          /\ now = Instants[i]
          /\ now' = Instants[i + 1]
    /\ ret' = NoCall
    /\ UNCHANGED <<observe, controller, inflight, alarm_config, events, bg_thread, stop_flag, config_store,
                   twin, cycle_wake>>

----------------------------------------------------------------------------
(* routes/__init__.py: the background monitor *)

\* start_background_fetch(): the thread and the stop flag afterwards.
start_background_fetch(thread, flag) ==
    IF thread = "alive" THEN [thread |-> thread, flag |-> flag]
    ELSE [thread |-> "alive", flag |-> FALSE]

\* save_alarm_event(event_type, ...): one row more, of type event_type.
save_alarm_event(log, event_type) == [n |-> log.n + 1, last |-> event_type]

\* Whether the hub takes the next patch of reported properties: at most
\* MaxSends patches get through in a run.
SendOutcomes == IF twin.sent.n < MaxSends THEN BOOLEAN ELSE {FALSE}

\* A monitor whose fetch is outside the try: the exception ends the thread.
MonitorIteration_unguarded(sample, sink_ok) ==
    /\ bg_thread = "alive"
    /\ ~stop_flag
    /\ bg_thread' = IF sample = "fetch_error" THEN "dead" ELSE "alive"
    /\ ret' = Call("monitor", IF sample = "fetch_error" THEN "fetch_error" ELSE "no_check")
    /\ UNCHANGED <<now, observe, controller, inflight, alarm_config, events, stop_flag, config_store,
                   twin, cycle_wake>>

(* One iteration of _background_fetch_loop: the loop test, the body and the *)
(* sleep. sample is what the fetch and the predictor give: "fetch_error"    *)
(* (fetch_sleep or the predictor raises), "no_session", or a quality label; *)
(* sink_ok says whether save_alarm_event succeeds if it is called. Whatever *)
(* raises inside the body is caught at line 84 and the iteration ends with  *)
(* the sleep.                                                               *)
MonitorIteration(sample, sink_ok) ==
    /\ bg_thread = "alive"
    /\ ~stop_flag
    /\ LET active == config_store.fitbit_connected /\ alarm_config.enabled
                     /\ ~alarm_config.triggered
           sampled == active /\ sample \in PredictorLabels
           is_light == lower(sample) \in {"fair", "poor"}
           status == get_alarm_status(alarm_config, now)
           checking == sampled /\ status.in_window = "true"
           r == check_alarm_trigger(alarm_config, now, sample, is_light)
       IN /\ IF checking
             THEN /\ alarm_config' = r.cfg
                  /\ IF r.ret # "none" /\ sink_ok
                     THEN /\ events.n < MaxEvents
                          /\ events' = save_alarm_event(events, "triggered")
                          /\ ret' = Call("monitor", r.ret)
                     ELSE /\ UNCHANGED events
                          /\ ret' = Call("monitor", IF r.ret # "none" THEN "sink_error"
                                                    ELSE "none")
             ELSE /\ ret' = Call("monitor", IF active /\ sample = "fetch_error"
                                            THEN "fetch_error" ELSE "no_check")
                  /\ UNCHANGED <<alarm_config, events>>
    /\ UNCHANGED <<now, observe, controller, inflight, bg_thread, stop_flag, config_store, twin, cycle_wake>>

\* A loop test that finds _stop_background_fetch set, clears it and goes on.
MonitorExit_goes_on ==
    /\ bg_thread = "alive"
    /\ stop_flag
    /\ stop_flag' = FALSE
    /\ ret' = Call("monitor_exit", "none")
    /\ UNCHANGED <<now, observe, controller, inflight, alarm_config, events, bg_thread, config_store, twin,
                   cycle_wake>>

\* The loop test finds _stop_background_fetch set: the thread ends.
MonitorExit ==
    /\ bg_thread = "alive"
    /\ stop_flag
    /\ bg_thread' = "dead"
    /\ ret' = Call("monitor_exit", "none")
    /\ UNCHANGED <<now, observe, controller, inflight, alarm_config, events, stop_flag, config_store, twin,
                   cycle_wake>>

----------------------------------------------------------------------------
(* routes/alarm_routes.py: the control surface. ret.val is the HTTP status  *)
(* of the response (500: an exception left the handler).                   *)

\* A status query that stamps last_check the way a check does.
GetAlarm_stamps ==
    /\ ret' = Returned([op |-> "get_alarm", val |-> "200", time |-> PyNone,
               status |-> get_alarm_status(alarm_config, now)])
    /\ alarm_config' = [alarm_config EXCEPT !.last_check = now]
    /\ UNCHANGED <<now, observe, controller, inflight, events, bg_thread, stop_flag,
                   config_store, twin, cycle_wake>>

\* GET /api/alarm
GetAlarm ==
    /\ ret' = Returned([op |-> "get_alarm", val |-> "200", time |-> PyNone,
               status |-> get_alarm_status(alarm_config, now)])
    /\ UNCHANGED <<now, observe, controller, inflight, alarm_config, events, bg_thread, stop_flag,
                   config_store, twin, cycle_wake>>

\* POST /api/alarm with {"wake_time": wake_time, "window_minutes": window_minutes}
PostAlarm(wake_time, window_minutes, send_ok) ==
    LET r == set_alarm(alarm_config, wake_time, window_minutes)
        started == start_background_fetch(bg_thread, stop_flag)
    IN IF ~Truthy(wake_time)
       THEN /\ ret' = Call("post_alarm", "400")
            /\ UNCHANGED <<now, observe, controller, inflight, alarm_config, events, bg_thread, stop_flag,
                           config_store, twin, cycle_wake>>
       ELSE IF r.ret = "true"
       THEN /\ events.n < MaxEvents
            /\ alarm_config' = r.cfg
            /\ events' = save_alarm_event(events, "set")
            /\ bg_thread' = started.thread
            /\ stop_flag' = started.flag
            /\ twin' = update_alarm_twin(twin, now, TRUE, wake_time, window_minutes, send_ok)
            /\ ret' = Returned([op |-> "post_alarm", val |-> "200", time |-> PyNone,
                       status |-> get_alarm_status(r.cfg, now)])
            /\ cycle_wake' = CycleWake(r.cfg, now)
            /\ UNCHANGED <<now, observe, controller, inflight, config_store>>
       ELSE /\ ret' = Call("post_alarm", IF r.ret = "false" THEN "400" ELSE "500")
            /\ alarm_config' = r.cfg
            /\ UNCHANGED <<now, observe, controller, inflight, events, bg_thread, stop_flag, config_store,
                           twin, cycle_wake>>

\* DELETE /api/alarm
DeleteAlarm(send_ok) ==
    /\ events.n < MaxEvents
    /\ alarm_config' = disable_alarm(alarm_config)
    /\ stop_flag' = TRUE
    /\ events' = save_alarm_event(events, "disabled")
    /\ twin' = update_alarm_twin(twin, now, FALSE, PyNone, 0, send_ok)
    /\ ret' = Call("delete_alarm", "200")
    /\ cycle_wake' = 0
    /\ UNCHANGED <<now, observe, controller, inflight, bg_thread, config_store>>

\* A snooze route that logs its event before it looks at the result.
AlarmSnooze_logs_first(minutes) ==
    LET r == snooze_alarm(alarm_config, now, minutes)
    IN /\ alarm_config' = r.cfg
       /\ events.n < MaxEvents
       /\ events' = save_alarm_event(events, "snoozed")
       /\ IF Truthy(r.ret)
          THEN /\ ret' = Returned([op |-> "snooze", val |-> "200", time |-> r.ret,
                          status |-> NoStatus])
               /\ cycle_wake' = CycleWake(r.cfg, now)
          ELSE /\ ret' = Call("snooze", "400")
               /\ UNCHANGED cycle_wake
       /\ UNCHANGED <<now, observe, controller, inflight, bg_thread, stop_flag, config_store, twin>>

\* POST /api/alarm/snooze with {"minutes": minutes}
AlarmSnooze(minutes) ==
    LET r == snooze_alarm(alarm_config, now, minutes)
    IN /\ alarm_config' = r.cfg
       /\ IF Truthy(r.ret)
          THEN /\ events.n < MaxEvents
               /\ events' = save_alarm_event(events, "snoozed")
               /\ ret' = Returned([op |-> "snooze", val |-> "200", time |-> r.ret,
                          status |-> NoStatus])
               /\ cycle_wake' = CycleWake(r.cfg, now)
          ELSE /\ ret' = Call("snooze", "400")
               /\ UNCHANGED <<events, cycle_wake>>
       /\ UNCHANGED <<now, observe, controller, inflight, bg_thread, stop_flag, config_store, twin>>

\* POST /api/alarm/dismiss
AlarmDismiss ==
    /\ events.n < MaxEvents
    /\ events' = save_alarm_event(events, "dismissed")
    /\ alarm_config' = dismiss_alarm(alarm_config)
    /\ ret' = Call("dismiss", "200")
    /\ cycle_wake' = IF alarm_config.triggered
                     THEN CycleWake(dismiss_alarm(alarm_config), now) ELSE cycle_wake
    /\ UNCHANGED <<now, observe, controller, inflight, bg_thread, stop_flag, config_store, twin>>

\* POST /api/alarm/check with {"sleep_quality": ..., "is_light_sleep": ...};
\* ret.val is the trigger reason when the response says alarm_triggered.
AlarmCheck(sleep_quality, is_light_sleep) ==
    LET r == check_alarm_trigger(alarm_config, now, sleep_quality, is_light_sleep)
    IN /\ alarm_config' = r.cfg
       /\ IF r.ret # "none"
          THEN /\ events.n < MaxEvents
               /\ events' = save_alarm_event(events, "triggered")
               /\ ret' = Call("alarm_check", r.ret)
          ELSE /\ ret' = Returned([op |-> "alarm_check", val |-> "none", time |-> PyNone,
                          status |-> get_alarm_status(r.cfg, now)])
               /\ UNCHANGED events
       /\ UNCHANGED <<now, observe, controller, inflight, bg_thread, stop_flag, config_store, twin, cycle_wake>>

\* init_iothub() of a process without a device connection string: lines 245-248.
InitIothubUnavailable ==
    /\ ~twin.available
    /\ config_store' = [config_store EXCEPT !.iothub_connected = FALSE]
    /\ ret' = Call("init_iothub", "false")
    /\ UNCHANGED <<now, observe, controller, inflight, alarm_config, events, bg_thread, stop_flag, twin,
                   cycle_wake>>

----------------------------------------------------------------------------
(* services/iothub_service.py: the handlers and the keepalive thread *)

\* Desired-property patches the hub delivers.
Patches ==
    { Patch({"alarm_time", "smart_wakeup_window"}, PyStr(<<"0", "0", ":", "1", "0">>), 15, TRUE),
      Patch({"smart_wakeup_window"}, PyNone, 30, TRUE),
      Patch({"capture_enabled"}, PyNone, 0, FALSE),
      Patch({"alarm_time"}, PyStr(<<"2", "4", ":", "0", "0">>), 0, TRUE),
      Patch({"$version"}, PyNone, 0, TRUE),
      Patch({}, PyNone, 0, TRUE) }

InitOutcomes == {"create_fails", "connect_fails", "twin_read_fails", "ok"}

\* The process with a device connection string: IOTHUB_AVAILABLE is True.
InitTwin ==
    InitCommon /\ observe = FALSE /\ now = Instants[TwinFirstInstant] /\ twin = InitialTwin(TRUE)

\* is_connected()
is_connected(tw, cs) == tw.device_client /\ cs.iothub_connected

\* An init_iothub that starts the keepalive thread before it connects.
InitIothub_starts_thread(outcome, desired, send_ok) ==
    /\ twin.available
    /\ twin.listener # "alive"
    /\ twin' = [twin EXCEPT !.stop_twin_listener = FALSE, !.device_client = TRUE,
                            !.listener = "alive"]
    /\ config_store' = [config_store EXCEPT
                           !.iothub_connected = outcome \notin {"create_fails", "connect_fails"}]
    /\ ret' = Call("init_iothub", IF outcome \in {"create_fails", "connect_fails"}
                                  THEN "false" ELSE "true")
    /\ UNCHANGED <<now, observe, controller, inflight, alarm_config, events, bg_thread, stop_flag,
                   cycle_wake>>

(* init_iothub() with a connection string. outcome: "create_fails" (the     *)
(* client cannot be created), "connect_fails" (connect() raises, the client *)
(* is already assigned), "twin_read_fails" (get_twin() raises) or "ok";     *)
(* desired is the desired-properties document of the twin.                 *)
InitIothub(outcome, desired, send_ok) ==
    /\ twin.available
    /\ twin.listener # "alive"
    /\ LET tw0 == [twin EXCEPT !.stop_twin_listener = FALSE]
           tw1 == [tw0 EXCEPT !.device_client = TRUE]
           synced == on_twin_desired_properties_patch(alarm_config, config_store, tw1, now,
                                                      desired, TRUE, send_ok)
           initial_reported ==
               [k \in {"device_started", "last_sync", "alarm_enabled", "alarm_time",
                       "smart_wakeup_window", "capture_enabled"} |->
                  CASE k \in {"device_started", "last_sync"} -> PyTime(now)
                    [] k \in {"alarm_enabled", "capture_enabled"} -> PyBool(synced.cfg.enabled)
                    [] k = "alarm_time" -> synced.cfg.wake_time
                    [] OTHER -> PyNum(synced.cfg.window_minutes)]
           applied == desired.keys \ {"$version"} # {}
       IN CASE outcome = "create_fails" ->
                 /\ twin' = tw0
                 /\ config_store' = [config_store EXCEPT !.iothub_connected = FALSE]
                 /\ ret' = Call("init_iothub", "false")
                 /\ UNCHANGED <<alarm_config, cycle_wake>>
            [] outcome = "connect_fails" ->
                 /\ twin' = tw1
                 /\ config_store' = [config_store EXCEPT !.iothub_connected = FALSE]
                 /\ ret' = Call("init_iothub", "false")
                 /\ UNCHANGED <<alarm_config, cycle_wake>>
            [] outcome = "twin_read_fails" ->
                 /\ twin' = [tw1 EXCEPT !.listener = "alive"]
                 /\ config_store' = [config_store EXCEPT !.iothub_connected = TRUE]
                 /\ ret' = Call("init_iothub", "true")
                 /\ UNCHANGED <<alarm_config, cycle_wake>>
            [] OTHER ->
                 /\ twin' = [(IF applied
                              THEN do_report_twin(synced.tw, now, initial_reported, send_ok)
                              ELSE tw1) EXCEPT !.listener = "alive"]
                 /\ alarm_config' = synced.cfg
                 /\ config_store' = [synced.cs EXCEPT !.iothub_connected = TRUE]
                 /\ ret' = Call("init_iothub", "true")
                 /\ cycle_wake' = IF applied /\ desired.keys \cap AlarmKeys # {}
                                  THEN CycleWake(synced.cfg, now) ELSE cycle_wake
    /\ UNCHANGED <<now, observe, controller, inflight, events, bg_thread, stop_flag>>

\* The SDK delivers a desired-properties patch to the registered handler.
TwinPatch(patch, send_ok) ==
    /\ twin.device_client
    /\ config_store.iothub_connected
    /\ LET r == on_twin_desired_properties_patch(alarm_config, config_store, twin, now,
                                                 patch, FALSE, send_ok)
       IN /\ alarm_config' = r.cfg
          /\ config_store' = r.cs
          /\ twin' = r.tw
          /\ cycle_wake' = IF patch.keys \cap AlarmKeys # {}
                           THEN CycleWake(r.cfg, now) ELSE cycle_wake
    /\ ret' = Call("twin_patch", "none")
    /\ UNCHANGED <<now, observe, controller, inflight, events, bg_thread, stop_flag>>

DirectMethods == {"getStatus", "setCloudEnabled", "triggerFetch", "setAlarm", "reboot"}

\* A handle_direct_method whose setAlarm sets the alarm it is given ("07:00", 30).
DirectMethod_sets_alarm(method_name, payload_is_dict, enabled) ==
    /\ twin.device_client
    /\ config_store.iothub_connected
    /\ config_store' =
          IF method_name = "setCloudEnabled"
          THEN [config_store EXCEPT !.cloud_enabled = IF payload_is_dict THEN enabled ELSE TRUE]
          ELSE config_store
    /\ alarm_config' =
          IF method_name = "setAlarm" /\ payload_is_dict
          THEN set_alarm(alarm_config, PyStr(<<"0", "7", ":", "0", "0">>), 30).cfg
          ELSE alarm_config
    /\ ret' = Call("direct_method",
                   CASE method_name \in {"getStatus", "setCloudEnabled", "triggerFetch"} -> "200"
                     [] method_name = "setAlarm" -> IF payload_is_dict THEN "200" ELSE "400"
                     [] OTHER -> "404")
    /\ UNCHANGED <<now, observe, controller, inflight, events, bg_thread, stop_flag, twin, cycle_wake>>

\* handle_direct_method(request); payload_is_dict says whether the payload is a
\* mapping, enabled is its 'enabled' entry. ret.val is the status of the response.
DirectMethod(method_name, payload_is_dict, enabled) ==
    /\ twin.device_client
    /\ config_store.iothub_connected
    /\ config_store' =
          IF method_name = "setCloudEnabled"
          THEN [config_store EXCEPT !.cloud_enabled = IF payload_is_dict THEN enabled ELSE TRUE]
          ELSE config_store
    /\ ret' = Call("direct_method",
                   CASE method_name \in {"getStatus", "setCloudEnabled", "triggerFetch"} -> "200"
                     [] method_name = "setAlarm" -> IF payload_is_dict THEN "200" ELSE "400"
                     [] OTHER -> "404")
    /\ UNCHANGED <<now, observe, controller, inflight, alarm_config, events, bg_thread, stop_flag, twin, cycle_wake>>

\* One iteration of _keepalive_loop: the sleep, the stop test and the flush.
KeepaliveIteration(send_ok) ==
    /\ twin.listener = "alive"
    /\ ~twin.stop_twin_listener
    /\ twin' = IF twin.device_client /\ twin.pending # EmptyDict
                  /\ now - twin.last_report_time >= MIN_REPORT_INTERVAL /\ send_ok
               THEN [twin EXCEPT !.pending = EmptyDict,
                                 !.sent = patch_twin_reported_properties(@, twin.pending),
                                 !.last_report_time = now]
               ELSE twin
    /\ ret' = Call("keepalive", "none")
    /\ UNCHANGED <<now, observe, controller, inflight, alarm_config, events, bg_thread, stop_flag, config_store, cycle_wake>>

\* The loop test finds stop_twin_listener set: the thread ends.
KeepaliveExit ==
    /\ twin.listener = "alive"
    /\ twin.stop_twin_listener
    /\ twin' = [twin EXCEPT !.listener = "dead"]
    /\ ret' = Call("keepalive_exit", "none")
    /\ UNCHANGED <<now, observe, controller, inflight, alarm_config, events, bg_thread, stop_flag, config_store, cycle_wake>>

\* stop_iothub()
StopIothub ==
    /\ twin.available
    /\ twin' = [twin EXCEPT !.stop_twin_listener = TRUE]
    /\ config_store' = [config_store EXCEPT !.iothub_connected = FALSE]
    /\ ret' = Call("stop_iothub", "none")
    /\ UNCHANGED <<now, observe, controller, inflight, alarm_config, events, bg_thread, stop_flag, cycle_wake>>

----------------------------------------------------------------------------

Core ==
    \/ Tick(MaxInstant)
    \/ \E sample \in MonitorSamples, sink_ok \in BOOLEAN :
          MonitorIteration(sample, sink_ok)
    \/ MonitorExit
    \/ GetAlarm
    \/ \E t \in WakeTimeInputs, w \in Windows, ok \in SendOutcomes : PostAlarm(t, w, ok)
    \/ \E ok \in SendOutcomes : DeleteAlarm(ok)
    \/ \E m \in SnoozeMinutes : AlarmSnooze(m)
    \/ AlarmDismiss
    \/ \E q \in QualityInputs, l \in BOOLEAN : AlarmCheck(q, l)

Next ==
    \/ Core
    \/ InitIothubUnavailable

Spec == Init /\ [][Next]_vars


\* The control-surface inputs of the process with a device connection string.
TwinWakeTimeInputs == {PyStr(<<"0", "0", ":", "1", "0">>), PyStr(<<"2", "4", ":", "0", "0">>)}
TwinWindows == {30}
TwinQualityInputs == {"poor", "good"}
TwinSnoozeMinutes == {9}

NextTwin ==
    \/ Tick(TwinLastInstant)
    \/ \E sample \in {"poor", "good", "fetch_error"}, sink_ok \in BOOLEAN :
          MonitorIteration(sample, sink_ok)
    \/ MonitorExit
    \/ GetAlarm
    \/ \E t \in TwinWakeTimeInputs, w \in TwinWindows, ok \in SendOutcomes :
          PostAlarm(t, w, ok)
    \/ \E ok \in SendOutcomes : DeleteAlarm(ok)
    \/ \E m \in TwinSnoozeMinutes : AlarmSnooze(m)
    \/ AlarmDismiss
    \/ \E q \in TwinQualityInputs : AlarmCheck(q, FALSE)
    \/ \E outcome \in InitOutcomes,
          desired \in Patches, ok \in SendOutcomes : InitIothub(outcome, desired, ok)
    \/ \E patch \in Patches, ok \in SendOutcomes : TwinPatch(patch, ok)
    \/ \E name \in DirectMethods, d \in BOOLEAN, e \in BOOLEAN : DirectMethod(name, d, e)
    \/ \E ok \in SendOutcomes : KeepaliveIteration(ok)

SpecTwin == InitTwin /\ [][NextTwin]_vars

----------------------------------------------------------------------------
(* The threads beside each other. The Flask server answers every request on *)
(* a thread of its own (app.py line 656), the keepalive thread and the      *)
(* monitor thread run beside them, and no lock guards the module globals:   *)
(* here the calls whose steps other threads can run between are taken step  *)
(* by step. A step is a stretch of code without a blocking call: it ends    *)
(* where the thread enters the network send, or between the test and the    *)
(* assignment of start_background_fetch.                                    *)

\* Whether the hub takes the next patch of reported properties: at most
\* MaxFlightSends patches get through in a run.
ThreadSendOutcomes == IF twin.sent.n < MaxFlightSends THEN BOOLEAN ELSE {FALSE}

(* POST /api/alarm up to the test of start_background_fetch (line 94 of     *)
(* routes/__init__.py): set_alarm, the event, and the test of the thread.   *)
(* A request that finds the thread alive goes on to its response; one that  *)
(* does not is left between the test and line 97. In a process without a    *)
(* device connection string update_alarm_twin changes nothing.              *)
PostAlarmTest(wake_time, window_minutes) ==
    LET r == set_alarm(alarm_config, wake_time, window_minutes)
    IN IF ~Truthy(wake_time)
       THEN /\ ret' = Call("post_alarm", "400")
            /\ UNCHANGED <<now, observe, controller, inflight, alarm_config, events, bg_thread, stop_flag,
                           config_store, twin, cycle_wake>>
       ELSE IF r.ret = "true"
       THEN /\ ~twin.available
            /\ events.n < MaxEvents
            /\ inflight.starting < MaxStarters
            /\ alarm_config' = r.cfg
            /\ events' = save_alarm_event(events, "set")
            /\ cycle_wake' = CycleWake(r.cfg, now)
            /\ IF bg_thread = "alive"
               THEN /\ ret' = Returned([op |-> "post_alarm", val |-> "200", time |-> PyNone,
                               status |-> get_alarm_status(r.cfg, now)])
                    /\ UNCHANGED inflight
               ELSE /\ ret' = Call("post_alarm", "starting")
                    /\ inflight' = [inflight EXCEPT !.starting = @ + 1]
            /\ UNCHANGED <<now, observe, controller, bg_thread, stop_flag, config_store, twin>>
       ELSE /\ ret' = Call("post_alarm", IF r.ret = "false" THEN "400" ELSE "500")
            /\ alarm_config' = r.cfg
            /\ UNCHANGED <<now, observe, controller, inflight, events, bg_thread, stop_flag, config_store,
                           twin, cycle_wake>>

(* The rest of POST /api/alarm for a request that passed the test: lines    *)
(* 97-99 clear the flag and create, assign and start a thread, and the      *)
(* response carries the status read then. A thread another request assigned *)
(* meanwhile keeps running with no name left for it.                        *)
PostAlarmStart ==
    /\ inflight.starting > 0
    /\ stop_flag' = FALSE
    /\ bg_thread' = "alive"
    /\ inflight' = [inflight EXCEPT !.starting = @ - 1,
                                    !.unreferenced = IF bg_thread = "alive" THEN @ + 1 ELSE @]
    /\ ret' = Returned([op |-> "post_alarm", val |-> "200", time |-> PyNone,
               status |-> get_alarm_status(alarm_config, now)])
    /\ UNCHANGED <<now, observe, controller, alarm_config, events, config_store, twin, cycle_wake>>

\* The loop test of a thread no name is left for finds the flag set: it ends.
UnreferencedExit ==
    /\ inflight.unreferenced > 0
    /\ stop_flag
    /\ inflight' = [inflight EXCEPT !.unreferenced = @ - 1]
    /\ ret' = Call("monitor_exit", "unreferenced")
    /\ UNCHANGED <<now, observe, controller, alarm_config, events, bg_thread, stop_flag, config_store,
                   twin, cycle_wake>>

(* POST /api/alarm/check up to the decision of check_alarm_trigger: the     *)
(* tests of lines 51 and 54, the stamp of last_check and the comparison of  *)
(* the clock with the wake time and the window. A call that decides not to  *)
(* trigger writes nothing more and goes on to its response; one that        *)
(* decides to trigger is left before its write of triggered.                *)
AlarmCheckTest(sleep_quality, is_light_sleep) ==
    LET r == check_alarm_trigger(alarm_config, now, sleep_quality, is_light_sleep)
    IN /\ inflight.checking = "none"
       /\ IF r.ret # "none"
          THEN /\ alarm_config' = [alarm_config EXCEPT !.last_check = now]
               /\ inflight' = [inflight EXCEPT !.checking = r.ret]
               /\ ret' = Call("alarm_check", "deciding")
          ELSE /\ alarm_config' = r.cfg
               /\ ret' = Returned([op |-> "alarm_check", val |-> "none", time |-> PyNone,
                          status |-> get_alarm_status(r.cfg, now)])
               /\ UNCHANGED inflight
       /\ UNCHANGED <<now, observe, controller, events, bg_thread, stop_flag, config_store, twin,
                      cycle_wake>>

(* The rest of that request: check_alarm_trigger writes triggered and the   *)
(* reason it decided on into alarm_config as it is by then, and the route   *)
(* saves the event and responds.                                            *)
AlarmCheckCommit ==
    /\ inflight.checking # "none"
    /\ events.n < MaxEvents
    /\ alarm_config' = [alarm_config EXCEPT !.triggered = TRUE,
                                            !.trigger_reason = inflight.checking]
    /\ events' = save_alarm_event(events, "triggered")
    /\ inflight' = [inflight EXCEPT !.checking = "none"]
    /\ ret' = Call("alarm_check", inflight.checking)
    /\ UNCHANGED <<now, observe, controller, bg_thread, stop_flag, config_store, twin, cycle_wake>>

\* The requests of the process whose start_background_fetch is taken in steps.
StartWakeTimeInputs == {PyStr(<<"0", "7", ":", "0", "0">>), PyNone}

InitStart ==
    InitCommon /\ observe = TRUE /\ now = Instants[StartFirstInstant]
    /\ twin = InitialTwin(FALSE)

NextStart ==
    \/ Tick(MaxInstant)
    \/ \E t \in StartWakeTimeInputs, w \in {30} : PostAlarmTest(t, w)
    \/ PostAlarmStart
    \/ \E ok \in SendOutcomes : DeleteAlarm(ok)
    \/ \E sample \in {"poor", "fetch_error"}, sink_ok \in BOOLEAN :
          MonitorIteration(sample, sink_ok)
    \/ MonitorExit
    \/ UnreferencedExit
    \/ \E q \in {"poor", "good"} : AlarmCheckTest(q, FALSE)
    \/ AlarmCheckCommit

SpecStart == InitStart /\ [][NextStart]_vars

(* POST /api/cloud/toggle with {"enabled": enabled}, up to the network send *)
(* of its report_twin_properties: config_store is written and the report is *)
(* queued, or dropped for want of a client, or its send begins. The sync of *)
(* pending predictions after the report is not modelled.                    *)
ToggleCloudBegin(enabled) ==
    /\ ~inflight.route.busy
    /\ LET b == report_begin(twin, now, [cloud_enabled |-> PyBool(enabled)])
       IN /\ twin' = b.tw
          /\ inflight' = [inflight EXCEPT !.route = b.send,
                                          !.attempts = IF b.send.busy
                                                       THEN count_attempt(@, now) ELSE @]
          /\ ret' = Call("toggle_cloud", IF b.send.busy THEN "sending"
                                         ELSE IF b.tw = twin THEN "dropped" ELSE "queued")
    /\ config_store' = [config_store EXCEPT !.cloud_enabled = enabled]
    /\ UNCHANGED <<now, observe, controller, alarm_config, events, bg_thread, stop_flag, cycle_wake>>

\* The network send of the route's report returns, or raises.
ToggleCloudEnd(send_ok) ==
    /\ inflight.route.busy
    /\ twin' = report_end(twin, inflight.route, send_ok)
    /\ inflight' = [inflight EXCEPT !.route = NoSend]
    /\ ret' = Call("toggle_cloud_end", IF send_ok THEN "sent" ELSE "send_failed")
    /\ UNCHANGED <<now, observe, controller, alarm_config, events, bg_thread, stop_flag, config_store,
                   cycle_wake>>

(* The SDK delivers a desired-properties patch and runs the registered     *)
(* handler on a thread of its pool: lines 104-113, the tests. The handler   *)
(* returns at line 107 or 113 for a patch it discards, and goes on to the   *)
(* print of line 115 with one it accepts. Invocations take the free slots   *)
(* in order.                                                                *)
PatchTest(patch) ==
    /\ twin.device_client
    /\ config_store.iothub_connected
    /\ \E h \in 1..MaxHandlers :
          /\ inflight.handlers[h].pc = "idle"
          /\ \A g \in 1..(h - 1) : inflight.handlers[g].pc # "idle"
          /\ IF patch.keys \ {"$version"} = {} \/ inflight.reporting_from_callback
             THEN /\ ret' = Call("twin_patch", "discarded")
                  /\ UNCHANGED inflight
             ELSE /\ ret' = Call("twin_patch", "accepted")
                  /\ inflight' = [inflight EXCEPT !.handlers[h] =
                                     [pc |-> "accepted", patch |-> patch, send |-> NoSend]]
    /\ UNCHANGED <<now, observe, controller, alarm_config, events, bg_thread, stop_flag, config_store,
                   twin, cycle_wake>>

(* Lines 115-189 of an invocation that accepted its patch, up to the        *)
(* network send of the report: the patch is applied, _reporting_from_callback *)
(* is set and report_twin_properties is called, which queues the report     *)
(* (the finally clause then clears the flag and the handler ends) or begins *)
(* its send.                                                                *)
PatchApply(h) ==
    /\ inflight.handlers[h].pc = "accepted"
    /\ LET patch == inflight.handlers[h].patch
           applied == on_twin_desired_properties_patch(alarm_config, config_store, twin, now,
                                                       patch, TRUE, FALSE)
           reported == dict_update(patch_reported(applied.cfg, patch),
                                   [k \in {"last_sync"} |-> PyTime(now)])
           b == report_begin(twin, now, reported)
       IN /\ alarm_config' = applied.cfg
          /\ config_store' = applied.cs
          /\ cycle_wake' = IF patch.keys \cap AlarmKeys # {}
                           THEN CycleWake(applied.cfg, now) ELSE cycle_wake
          /\ IF patch_reported(applied.cfg, patch) = EmptyDict
             THEN /\ twin' = [twin EXCEPT !.initial_sync_done = TRUE]
                  /\ inflight' = [inflight EXCEPT !.handlers[h] = IdleHandler]
                  /\ ret' = Call("twin_patch_apply", "applied")
             ELSE IF b.send.busy
             THEN /\ twin' = b.tw
                  /\ inflight' = [inflight EXCEPT !.reporting_from_callback = TRUE,
                                                  !.handlers[h].pc = "sending",
                                                  !.handlers[h].send = b.send,
                                                  !.attempts = count_attempt(@, now)]
                  /\ ret' = Call("twin_patch_apply", "sending")
             ELSE /\ twin' = [b.tw EXCEPT !.initial_sync_done = TRUE]
                  /\ inflight' = [inflight EXCEPT !.reporting_from_callback = FALSE,
                                                  !.handlers[h] = IdleHandler]
                  /\ ret' = Call("twin_patch_apply", "queued")
    /\ UNCHANGED <<now, observe, controller, events, bg_thread, stop_flag>>

(* The network send of an invocation's report returns, or raises: the       *)
(* finally clause at line 192 clears _reporting_from_callback either way.   *)
PatchEnd(h, send_ok) ==
    /\ inflight.handlers[h].pc = "sending"
    /\ twin' = [report_end(twin, inflight.handlers[h].send, send_ok)
                   EXCEPT !.initial_sync_done = TRUE]
    /\ inflight' = [inflight EXCEPT !.reporting_from_callback = FALSE,
                                    !.handlers[h] = IdleHandler]
    /\ ret' = Call("twin_patch_end", IF send_ok THEN "sent" ELSE "send_failed")
    /\ UNCHANGED <<now, observe, controller, alarm_config, events, bg_thread, stop_flag, config_store,
                   cycle_wake>>

\* An iteration of _keepalive_loop that finds nothing to flush.
KeepaliveIdle ==
    /\ twin.listener = "alive"
    /\ ~twin.stop_twin_listener
    /\ ~inflight.flush.busy
    /\ ~flush_due(twin, now)
    /\ ret' = Call("keepalive", "idle")
    /\ UNCHANGED <<now, observe, controller, inflight, alarm_config, events, bg_thread, stop_flag,
                   config_store, twin, cycle_wake>>

\* An iteration of _keepalive_loop up to the network send of its flush.
FlushBegin ==
    /\ twin.listener = "alive"
    /\ ~twin.stop_twin_listener
    /\ ~inflight.flush.busy
    /\ flush_due(twin, now)
    /\ LET b == flush_begin(twin, now)
       IN /\ twin' = b.tw
          /\ inflight' = [inflight EXCEPT !.flush = b.send,
                                          !.attempts = count_attempt(@, now)]
    /\ ret' = Call("keepalive", "sending")
    /\ UNCHANGED <<now, observe, controller, alarm_config, events, bg_thread, stop_flag, config_store,
                   cycle_wake>>

\* The network send of the flush returns, or raises; the iteration ends.
FlushEnd(send_ok) ==
    /\ inflight.flush.busy
    /\ twin' = flush_end(twin, inflight.flush, send_ok)
    /\ inflight' = [inflight EXCEPT !.flush = NoSend]
    /\ ret' = Call("keepalive", IF send_ok THEN "sent" ELSE "send_failed")
    /\ UNCHANGED <<now, observe, controller, alarm_config, events, bg_thread, stop_flag, config_store,
                   cycle_wake>>

\* The loop test of the keepalive thread, between two iterations, finds
\* stop_twin_listener set.
KeepaliveStop ==
    /\ ~inflight.flush.busy
    /\ KeepaliveExit

\* The patches the hub delivers and the twin documents it holds.
ThreadPatches ==
    { Patch({"cloud_enabled"}, PyNone, 0, FALSE),
      Patch({"$version"}, PyNone, 0, TRUE),
      Patch({}, PyNone, 0, TRUE) }

InitThreads ==
    InitCommon /\ observe = TRUE /\ now = Instants[ThreadsFirstInstant]
    /\ twin = InitialTwin(TRUE)

NextThreads ==
    \/ Tick(ThreadsLastInstant)
    \/ \E ok \in ThreadSendOutcomes : InitIothub("ok", Patch({}, PyNone, 0, TRUE), ok)
    \/ \E enabled \in BOOLEAN : ToggleCloudBegin(enabled)
    \/ \E ok \in ThreadSendOutcomes : ToggleCloudEnd(ok)
    \/ \E patch \in ThreadPatches : PatchTest(patch)
    \/ \E h \in 1..MaxHandlers : PatchApply(h)
    \/ \E h \in 1..MaxHandlers, ok \in ThreadSendOutcomes : PatchEnd(h, ok)
    \/ KeepaliveIdle
    \/ FlushBegin
    \/ \E ok \in ThreadSendOutcomes : FlushEnd(ok)
    \/ StopIothub

SpecThreads == InitThreads /\ [][NextThreads]_vars

(* The two loops of the process, the monitor and the keepalive thread, with *)
(* the requests that start and stop them and the failures their iterations *)
(* meet.                                                                    *)
NextLoops ==
    \/ Tick(ThreadsLastInstant)
    \/ \E ok \in ThreadSendOutcomes : PostAlarm(PyStr(<<"0", "0", ":", "1", "9">>), 15, ok)
    \/ \E ok \in ThreadSendOutcomes : DeleteAlarm(ok)
    \/ \E sample \in {"poor", "fetch_error"}, sink_ok \in BOOLEAN :
          MonitorIteration(sample, sink_ok)
    \/ MonitorExit
    \/ InitIothubUnavailable
    \/ \E outcome \in {"create_fails", "connect_fails", "ok"}, ok \in ThreadSendOutcomes :
          InitIothub(outcome, Patch({}, PyNone, 0, TRUE), ok)
    \/ KeepaliveIdle
    \/ FlushBegin
    \/ \E ok \in ThreadSendOutcomes : FlushEnd(ok)
    \/ StopIothub
    \/ KeepaliveStop
    \/ \E name \in DirectMethods, d \in BOOLEAN, e \in BOOLEAN : DirectMethod(name, d, e)

\* The process with a device connection string, and the one without.
InitLoops ==
    InitCommon /\ observe = TRUE /\ now = Instants[ThreadsFirstInstant]
    /\ twin \in {InitialTwin(TRUE), InitialTwin(FALSE)}

SpecLoops == InitLoops /\ [][NextLoops]_vars

(* The same process with its two threads scheduled: a sleep of a loop ends  *)
(* and its loop test runs (time.sleep(90), time.sleep(60)), and the network *)
(* send of a flush returns or raises.                                       *)
SpecLoopsFair ==
    /\ SpecLoops
    /\ WF_vars(MonitorExit)
    /\ WF_vars(KeepaliveStop)
    /\ WF_vars(\E ok \in ThreadSendOutcomes : FlushEnd(ok))

----------------------------------------------------------------------------
(* src/edge: the alarm controller of the Raspberry Pi and the direct       *)
(* methods and the timers that call it.                                     *)

\* method_handler: the direct method "snooze".
MethodSnooze ==
    LET r == snooze(controller, now, DefaultSnoozeMinutes)
    IN /\ controller' = r.ctl
       /\ ret' = Call("edge_snooze", r.ret)
       /\ UNCHANGED <<now, observe, inflight, alarm_config, events, bg_thread, stop_flag,
                      config_store, twin, cycle_wake>>

\* method_handler: the direct method "stop_alarm".
MethodStopAlarm ==
    /\ controller' = stop_alarm(controller)
    /\ ret' = Call("edge_stop_alarm", "none")
    /\ UNCHANGED <<now, observe, inflight, alarm_config, events, bg_thread, stop_flag,
                   config_store, twin, cycle_wake>>

\* trigger_optimal_alarm(): the alarm check of the device finds it is time.
TriggerOptimalAlarm ==
    /\ controller' = trigger_alarm(controller)
    /\ ret' = Call("edge_trigger", "none")
    /\ UNCHANGED <<now, observe, inflight, alarm_config, events, bg_thread, stop_flag,
                   config_store, twin, cycle_wake>>

\* A threading.Timer started by a snooze is due and runs trigger_alarm.
TimerFires ==
    /\ \E i \in 1..Len(controller.timers) :
          /\ controller.timers[i] <= now
          /\ controller' =
                [trigger_alarm(controller) EXCEPT
                    !.timers = SubSeq(@, 1, i - 1) \o SubSeq(@, i + 1, Len(@))]
    /\ ret' = Call("edge_timer", "none")
    /\ UNCHANGED <<now, observe, inflight, alarm_config, events, bg_thread, stop_flag,
                   config_store, twin, cycle_wake>>

InitEdge == InitCommon /\ observe = TRUE /\ now = Instants[1] /\ twin = InitialTwin(FALSE)

NextEdge ==
    \/ Tick(MaxInstant)
    \/ MethodSnooze
    \/ MethodStopAlarm
    \/ TriggerOptimalAlarm
    \/ TimerFires

SpecEdge == InitEdge /\ [][NextEdge]_vars

----------------------------------------------------------------------------
(* Properties *)

\* C1: for every well-formed "HH:MM" string t and every window w,
\* set_alarm(t, w) returns true and leaves enabled = true, wake_time = t,
\* window_minutes = w, triggered = false and trigger_reason = null, and the
\* status computed right after it reports window_end = t; so does the state
\* a successful request to set the alarm leaves.
C1_SetAlarmWellFormed ==
    /\ \A t \in WellFormedTimes \cup BoundaryTimes, w \in Windows :
          LET r == set_alarm(alarm_config, t, w)
          IN /\ r.ret = "true"
             /\ r.cfg.enabled
             /\ r.cfg.wake_time = t
             /\ r.cfg.window_minutes = w
             /\ ~r.cfg.triggered
             /\ r.cfg.trigger_reason = NoReason
             /\ get_alarm_status(r.cfg, now).window_end = t
    /\ (ret.op = "post_alarm" /\ ret.val = "200") =>
          /\ alarm_config.enabled
          /\ ~alarm_config.triggered
          /\ alarm_config.trigger_reason = NoReason
          /\ alarm_config.window_minutes \in Windows
          /\ alarm_config.wake_time \in WellFormedTimes =>
                ret.status.window_end = alarm_config.wake_time

\* An alarm that was checked at this instant has just been set again, to a
\* well-formed time, and the status of the response ends the window at it.
C1_Witness ==
    /\ ret.op = "post_alarm"
    /\ ret.val = "200"
    /\ alarm_config.wake_time \in WellFormedTimes
    /\ ret.status.window_end = alarm_config.wake_time
    /\ alarm_config.last_check = now
    /\ events.last = "set"
    /\ events.n = 3

\* C2: for every malformed wake_time a request to set the alarm is answered
\* with the rejection of a set_alarm that returned false (it does not
\* raise), no field of alarm_config changes, no event is appended, the
\* monitor is not started and no twin report is issued.
C2_MalformedRejected ==
    [][ret'.op = "post_alarm" =>
        \A t \in MalformedTimes, w \in Windows, ok \in BOOLEAN :
          PostAlarm(t, w, ok) =>
             /\ ret'.val = "400"
             /\ UNCHANGED <<alarm_config, events, bg_thread, stop_flag, twin>>]_vars

\* C3: whenever the alarm is enabled, not triggered and has a wake_time, and
\* the clock is at or after the wake datetime of the current arming, a check
\* sets triggered and trigger_reason = "wake_time_reached" and returns a
\* trigger result, whatever the sample.
C3_WakeTimeReached ==
    [][ret'.op = "alarm_check" =>
        \A q \in QualityInputs, l \in BOOLEAN :
          ( /\ AlarmCheck(q, l)
            /\ alarm_config.enabled
            /\ ~alarm_config.triggered
            /\ Truthy(alarm_config.wake_time)
            /\ cycle_wake # 0
            /\ now >= cycle_wake )
          => /\ alarm_config'.triggered
             /\ alarm_config'.trigger_reason = "wake_time_reached"
             /\ ret'.val = "wake_time_reached"]_vars

\* C4: for an enabled, untriggered alarm and a clock inside the window
\* (window_start <= now < wake_datetime), check_alarm_trigger triggers with
\* trigger_reason = "light_sleep_detected" exactly when the sample is light
\* sleep (is_light_sleep, or a quality of fair or poor); with any other
\* sample in the window, and with any sample before window_start, it returns
\* null and leaves triggered = false.
C4_LightSleepInWindow ==
    /\ (alarm_config.enabled /\ ~alarm_config.triggered
        /\ CycleWake(alarm_config, now) # 0) =>
          LET wake_datetime == CycleWake(alarm_config, now)
              window_start == wake_datetime - alarm_config.window_minutes * SecondsPerMinute
          IN \A q \in QualityInputs, l \in BOOLEAN :
                LET r == check_alarm_trigger(alarm_config, now, q, l)
                    light == l \/ q \in {"fair", "poor", "Fair"}
                IN /\ (window_start <= now /\ now < wake_datetime /\ light) =>
                         /\ r.ret = "light_sleep_detected"
                         /\ r.cfg.triggered
                         /\ r.cfg.trigger_reason = "light_sleep_detected"
                   /\ (window_start <= now /\ now < wake_datetime /\ ~light) =>
                         (r.ret = "none" /\ ~r.cfg.triggered)
                   /\ (now < window_start) => (r.ret = "none" /\ ~r.cfg.triggered)
    /\ (ret.op \in {"alarm_check", "monitor"} /\ ret.val = "light_sleep_detected") =>
          /\ alarm_config.triggered
          /\ alarm_config.trigger_reason = "light_sleep_detected"
          /\ alarm_config.last_check = now
          /\ events.last = "triggered"

\* The alarm set to 07:00 with a window of 30 minutes has just been triggered
\* by a check with a light-sleep sample at 06:50.
C4_Witness ==
    /\ ret.op = "alarm_check"
    /\ ret.val = "light_sleep_detected"
    /\ alarm_config.triggered
    /\ alarm_config.wake_time = PyStr(<<"0", "7", ":", "0", "0">>)
    /\ alarm_config.window_minutes = 30
    /\ now = At(2, 6, 50, 0)

\* C5: while triggered is true, every call of check_alarm_trigger, from the
\* monitor loop or from the force-check request, returns null and changes
\* nothing (the monitor does not even call it), so an arming produces at
\* most one trigger result.
C5_NoTriggerWhileTriggered ==
    [][(alarm_config.triggered /\ ret'.op \in {"alarm_check", "monitor"}) =>
          /\ ret'.val \in {"none", "no_check"}
          /\ alarm_config' = alarm_config
          /\ events' = events]_vars

\* A force check of a triggered alarm, at the wake instant itself, returned null.
C5_Witness ==
    /\ ret.op = "alarm_check"
    /\ ret.val = "none"
    /\ alarm_config.triggered
    /\ alarm_config.enabled
    /\ now = cycle_wake

\* C6: triggered goes from true to false only as the effect of
\* dismiss_alarm, snooze_alarm, disable_alarm or a set_alarm that re-arms
\* the alarm: the alarm_config of a step that clears it is the one such a
\* call leaves.
C6_ClearedOnlyByCalls ==
    [][(alarm_config.triggered /\ ~alarm_config'.triggered) =>
          \/ alarm_config' = dismiss_alarm(alarm_config)
          \/ alarm_config' = disable_alarm(alarm_config)
          \/ \E m \in SnoozeMinutes : alarm_config' = snooze_alarm(alarm_config, now, m).cfg
          \/ \E t \in WakeTimeInputs, w \in Windows :
                /\ set_alarm(alarm_config, t, w).ret = "true"
                /\ alarm_config' = set_alarm(alarm_config, t, w).cfg]_vars

\* C7 (as stated): if today's instance of wake_time has elapsed and the
\* alarm is not triggered, check_alarm_trigger and get_alarm_status use
\* tomorrow's instance, and the window_start they compute is later than now.
C7_WindowStartInFuture ==
    (alarm_config.enabled /\ ~alarm_config.triggered
     /\ strptime(alarm_config.wake_time).exc = "none"
     /\ combine(now, strptime(alarm_config.wake_time)) < now) =>
       LET p == strptime(alarm_config.wake_time)
           tomorrow == combine(now, p) + SecondsPerDay
       IN /\ check_wake_datetime(now, p) = tomorrow
          /\ status_wake_datetime(alarm_config, now, p) = tomorrow
          /\ minus_minutes(check_wake_datetime(now, p), alarm_config.window_minutes) > now
          /\ minus_minutes(status_wake_datetime(alarm_config, now, p),
                           alarm_config.window_minutes) > now

\* C7 (amended): if today's instance of wake_time has elapsed and the alarm
\* is not triggered, check_alarm_trigger and get_alarm_status use tomorrow's
\* instance, which is later than now; the window_start they compute is
\* window_minutes before it, and when that is not later than now the clock
\* is inside tomorrow's window: the status reports in_window and a
\* light-sleep sample triggers.
C7_RollsToTomorrow ==
    (alarm_config.enabled /\ ~alarm_config.triggered
     /\ strptime(alarm_config.wake_time).exc = "none"
     /\ combine(now, strptime(alarm_config.wake_time)) < now) =>
       LET p == strptime(alarm_config.wake_time)
           tomorrow == combine(now, p) + SecondsPerDay
           window_start == tomorrow - alarm_config.window_minutes * SecondsPerMinute
           status == get_alarm_status(alarm_config, now)
       IN /\ check_wake_datetime(now, p) = tomorrow
          /\ status_wake_datetime(alarm_config, now, p) = tomorrow
          /\ tomorrow > now
          /\ status.window_end = strftime(tomorrow)
          /\ status.minutes_until_wake = (tomorrow - now) \div SecondsPerMinute
          /\ status.in_window = (IF window_start <= now THEN "true" ELSE "false")
          /\ check_alarm_trigger(alarm_config, now, "good", FALSE).ret = "none"
          /\ check_alarm_trigger(alarm_config, now, "poor", FALSE).ret =
                (IF window_start <= now THEN "light_sleep_detected" ELSE "none")

\* At 23:50 the status of an alarm set to 00:10 with a window of 30 minutes
\* was asked for: today's 00:10 has elapsed, and the window of tomorrow's
\* has begun.
C7_Witness ==
    /\ ret.op = "get_alarm"
    /\ ret.status.in_window = "true"
    /\ ret.status.minutes_until_wake = 20
    /\ alarm_config.enabled
    /\ ~alarm_config.triggered
    /\ alarm_config.window_minutes = 30
    /\ now = At(1, 23, 50, 0)
    /\ combine(now, strptime(alarm_config.wake_time)) < now

\* C8: snooze_alarm(m) called while triggered sets wake_time to the HH:MM of
\* now + m minutes, clears triggered and trigger_reason, returns the new
\* time and changes no other field; called while not triggered it returns
\* null and changes nothing.
C8_Snooze ==
    /\ \A m \in SnoozeMinutes :
          LET r == snooze_alarm(alarm_config, now, m)
              p == strptime(r.ret)
          IN IF alarm_config.triggered
             THEN /\ r.cfg = [alarm_config EXCEPT !.wake_time = r.ret,
                                                  !.triggered = FALSE,
                                                  !.trigger_reason = NoReason]
                  /\ p.exc = "none"
                  /\ Len(r.ret.v) = 5
                  /\ p.h * 60 + p.m = ((now + m * SecondsPerMinute) \div SecondsPerMinute) % (24 * 60)
             ELSE r = [cfg |-> alarm_config, ret |-> PyNone]
    /\ (ret.op = "snooze" /\ ret.val = "200") =>
          /\ ret.time = alarm_config.wake_time
          /\ ~alarm_config.triggered
          /\ alarm_config.trigger_reason = NoReason
          /\ events.last = "snoozed"
    /\ (ret.op = "snooze" /\ ret.val = "400") => ret.time = PyNone

\* A triggered alarm has just been snoozed by 25 minutes at 23:40, past
\* midnight to 00:05.
C8_Witness ==
    /\ ret.op = "snooze"
    /\ ret.val = "200"
    /\ ret.time = PyStr(<<"0", "0", ":", "0", "5">>)
    /\ alarm_config.wake_time = ret.time
    /\ alarm_config.enabled
    /\ ~alarm_config.triggered
    /\ now = At(1, 23, 40, 0)

\* C9: dismiss_alarm changes only triggered and trigger_reason, to false and
\* null; disable_alarm sets enabled = false and triggered = false and leaves
\* wake_time and window_minutes unchanged.
C9_DismissDisableFrame ==
    [][/\ ret'.op = "dismiss" =>
             alarm_config' = [alarm_config EXCEPT !.triggered = FALSE,
                                                  !.trigger_reason = NoReason]
       /\ ret'.op = "delete_alarm" =>
             /\ ~alarm_config'.enabled
             /\ ~alarm_config'.triggered
             /\ alarm_config'.wake_time = alarm_config.wake_time
             /\ alarm_config'.window_minutes = alarm_config.window_minutes]_vars

\* An alarm that was set and checked has just been disabled: it keeps its
\* wake time and its window.
C9_Witness ==
    /\ ret.op = "delete_alarm"
    /\ ~alarm_config.enabled
    /\ ~alarm_config.triggered
    /\ Truthy(alarm_config.wake_time)
    /\ alarm_config.window_minutes = 15
    /\ alarm_config.last_check # 0
    /\ events.last = "disabled"

\* C10: when the alarm is disabled, already triggered, or has no wake_time,
\* check_alarm_trigger returns null and changes no field of alarm_config,
\* last_check included; when it does evaluate, it never changes enabled,
\* wake_time or window_minutes.
C10_CheckFrame ==
    [][ret'.op \in {"alarm_check", "monitor"} =>
          /\ IF ~alarm_config.enabled \/ alarm_config.triggered
                \/ ~Truthy(alarm_config.wake_time)
             THEN /\ ret'.val \in {"none", "no_check"}
                  /\ alarm_config' = alarm_config
                  /\ events' = events
             ELSE /\ alarm_config'.enabled = alarm_config.enabled
                  /\ alarm_config'.wake_time = alarm_config.wake_time
                  /\ alarm_config'.window_minutes = alarm_config.window_minutes
          /\ \A wake_time \in {PyNone, PyStr(<<>>)} :
                LET cfg == [alarm_config EXCEPT !.enabled = TRUE, !.triggered = FALSE,
                                                !.wake_time = wake_time]
                IN check_alarm_trigger(cfg, now, "poor", TRUE) = [cfg |-> cfg, ret |-> "none"]]_vars

\* A force check of a disabled alarm that was checked earlier returned null
\* and left last_check at the earlier instant.
C10_Witness ==
    /\ ret.op = "alarm_check"
    /\ ret.val = "none"
    /\ ~alarm_config.enabled
    /\ Truthy(alarm_config.wake_time)
    /\ alarm_config.last_check # 0
    /\ alarm_config.last_check < now

\* C11: get_alarm_status is side-effect-free and never raises: a status
\* query answers with the status derived from alarm_config and the clock and
\* changes no field of alarm_config nor anything else the alarm reads, and
\* for a wake_time that is no time it returns the status without the window
\* keys.
C11_StatusPure ==
    [][ret'.op = "get_alarm" =>
          /\ ret'.val = "200"
          /\ ret'.status = get_alarm_status(alarm_config, now)
          /\ alarm_config' = alarm_config
          /\ UNCHANGED <<now, events, bg_thread, stop_flag, config_store, twin, cycle_wake>>
          /\ \A wake_time \in MalformedTimes :
                get_alarm_status([alarm_config EXCEPT !.enabled = TRUE,
                                                      !.wake_time = wake_time], now) = NoStatus]_vars

\* The status of a triggered alarm has just been asked for, after the wake
\* instant of the day: the window it reports still ends at the wake time.
C11_Witness ==
    /\ ret.op = "get_alarm"
    /\ alarm_config.triggered
    /\ alarm_config.last_check # 0
    /\ alarm_config.last_check < now
    /\ ret.status.window_end = alarm_config.wake_time
    /\ ret.status.in_window = "false"


\* C12: under every interleaving of the requests that start and stop the
\* monitor at most one monitor thread is alive: the one _background_fetch_thread
\* names, with no other thread running beside it.
C12_OneWorker ==
    (IF bg_thread = "alive" THEN 1 ELSE 0) + inflight.unreferenced <= 1

\* C13: no failure inside an iteration ends a loop. An iteration of the
\* monitor, whether its fetch or predictor raises, its event cannot be saved
\* or nothing fails, leaves the monitor thread alive with its stop flag as
\* it was; an iteration of the keepalive thread, whether its send raises or
\* not, leaves the keepalive thread alive and its stop flag as it was, and
\* the snapshot of a failed send is pending again; and a thread whose stop
\* flag is clear is ended by no step of the process.
C13_LoopsSurvive ==
    [][/\ ret'.op = "monitor" =>
             bg_thread = "alive" /\ bg_thread' = "alive" /\ stop_flag' = stop_flag
       /\ ret'.op = "keepalive" =>
             /\ twin.listener = "alive" /\ twin'.listener = "alive"
             /\ twin'.stop_twin_listener = twin.stop_twin_listener
             /\ ret'.val = "send_failed" =>
                   twin'.pending = inflight.flush.to_send /\ ~inflight'.flush.busy
       /\ (bg_thread = "alive" /\ ~stop_flag) => bg_thread' = "alive"
       /\ (twin.listener = "alive" /\ ~twin.stop_twin_listener) =>
             twin'.listener = "alive"]_vars

\* The send of a flush has just failed in a process whose monitor triggered
\* the alarm without being able to save the event, and both threads live.
C13_Witness ==
    /\ ret.op = "keepalive"
    /\ ret.val = "send_failed"
    /\ twin.pending # EmptyDict
    /\ twin.listener = "alive"
    /\ bg_thread = "alive"
    /\ alarm_config.triggered
    /\ events.last = "set"

\* The fetch of an iteration of the monitor has just raised, and the thread
\* is alive with its stop flag clear.
C13_FetchWitness ==
    /\ ret.op = "monitor"
    /\ ret.val = "fetch_error"
    /\ bg_thread = "alive"
    /\ ~stop_flag

\* Whether every key of patch the handler reads carries the value the
\* process already holds for it.
patch_is_current(cfg, cs, patch) ==
    /\ patch.keys \ {"$version"} # {}
    /\ "alarm_time" \in patch.keys => patch.alarm_time = cfg.wake_time
    /\ "smart_wakeup_window" \in patch.keys => patch.smart_wakeup_window = cfg.window_minutes
    /\ "alarm_enabled" \in patch.keys => patch.alarm_enabled = cfg.enabled
    /\ "capture_enabled" \in patch.keys => patch.capture_enabled = cfg.enabled
    /\ "cloud_enabled" \in patch.keys => patch.cloud_enabled = cs.cloud_enabled
    /\ "monitoring_active" \in patch.keys => patch.monitoring_active = cs.monitoring_active

\* C14: the handler of desired-property patches is idempotent: a patch that
\* is delivered again, every value of it being the one the process already
\* holds, changes no field of alarm_config (triggered included) nor of
\* config_store, queues no report and sends none.
C14_RedeliveryChangesNothing ==
    [][\A patch \in Patches, ok \in BOOLEAN :
          (patch_is_current(alarm_config, config_store, patch) /\ TwinPatch(patch, ok)) =>
             /\ UNCHANGED <<alarm_config, config_store>>
             /\ twin'.pending = twin.pending
             /\ twin'.sent = twin.sent]_vars

\* C15: a patch that is empty, or that is delivered while the send of an
\* acknowledgment the handler started is in flight, is discarded, and a
\* discarded patch changes no local state and queues nothing; and the
\* loop-prevention flag is set exactly while such a send is in flight, so
\* that it is clear again once the send has returned or raised.
C15_DiscardedWhileSending ==
    [][/\ ret'.op = "twin_patch" =>
             /\ (\E h \in 1..MaxHandlers : inflight.handlers[h].pc = "sending") =>
                   ret'.val = "discarded"
             /\ ret'.val = "discarded" =>
                   UNCHANGED <<alarm_config, config_store, twin, inflight>>
       /\ inflight'.reporting_from_callback <=>
             \E h \in 1..MaxHandlers : inflight'.handlers[h].pc = "sending"]_vars

\* C16: the alarm_config the handler leaves for a patch with alarm keys is
\* the one set_alarm leaves for the time and the window the patch amounts to
\* (its own where it carries them, the current ones where it does not), or
\* the one disable_alarm leaves; a patch whose alarm_time set_alarm rejects
\* changes no field of alarm_config; and the handler clears trigger_reason
\* whenever it clears triggered.
C16_PatchIsSetOrDisable ==
    [][\A patch \in Patches, ok \in BOOLEAN :
          (patch.keys \cap AlarmKeys # {} /\ TwinPatch(patch, ok)) =>
             LET time == IF "alarm_time" \in patch.keys THEN patch.alarm_time
                         ELSE alarm_config.wake_time
                 window == IF "smart_wakeup_window" \in patch.keys
                           THEN patch.smart_wakeup_window ELSE alarm_config.window_minutes
                 r == set_alarm(alarm_config, time, window)
             IN /\ alarm_config' \in {r.cfg, disable_alarm(alarm_config)}
                /\ r.ret # "true" => alarm_config' = alarm_config
                /\ (alarm_config.triggered /\ ~alarm_config'.triggered) =>
                      alarm_config'.trigger_reason = NoReason]_vars

\* C17: the handler of desired-property patches performs no network send:
\* a delivery leaves the patches the hub has received as they were, and the
\* acknowledgment of an applied patch is pending afterwards.
C17_HandlerOnlyQueues ==
    [][\A patch \in Patches, ok \in BOOLEAN :
          TwinPatch(patch, ok) =>
             /\ twin'.sent = twin.sent
             /\ patch.keys \cap AlarmKeys # {} => "alarm_time" \in DOMAIN twin'.pending]_vars

\* C18: reports merge last-write-wins per key. A report of cloud_enabled
\* that is queued leaves the reported value pending for the key, and one
\* that goes to the network sends the reported value for the key, also
\* when an older value for the key was pending.
C18_LastWriteWins ==
    [][ret'.op = "toggle_cloud" =>
          /\ ret'.val = "queued" =>
                twin'.pending["cloud_enabled"] = PyBool(config_store'.cloud_enabled)
          /\ ret'.val = "sending" =>
                inflight'.route.to_send["cloud_enabled"] = PyBool(config_store'.cloud_enabled)]_vars

\* Whether every key of the snapshot to_send is pending in tw with the value
\* the snapshot has for it.
still_pending(tw, to_send) ==
    \A k \in DOMAIN to_send : k \in DOMAIN tw.pending /\ tw.pending[k] = to_send[k]

\* C19: a network send of reported properties that fails loses no property:
\* whether it is the send of a route's report, of the handler's
\* acknowledgment or of the keepalive thread's flush, every key of the
\* snapshot it carried is pending afterwards with the value it had in it.
C19_FailedSendKeepsAll ==
    [][ret'.val = "send_failed" =>
          /\ ret'.op = "toggle_cloud_end" => still_pending(twin', inflight.route.to_send)
          /\ ret'.op = "keepalive" => still_pending(twin', inflight.flush.to_send)
          /\ ret'.op = "twin_patch_end" =>
                \A h \in 1..MaxHandlers :
                   (inflight.handlers[h].pc = "sending" /\ inflight'.handlers[h].pc = "idle") =>
                      still_pending(twin', inflight.handlers[h].send.to_send)]_vars

\* C20: a key that a report call queued while the send of a flush was in
\* flight is pending with the value of that call once the send has returned
\* or raised.
C20_QueuedDuringFlushStays ==
    [][(ret'.op = "keepalive" /\ ret'.val \in {"sent", "send_failed"}) =>
          still_pending(twin', twin.pending)]_vars

\* C21: successful sends of reported properties are at least
\* MIN_REPORT_INTERVAL apart under every interleaving of the report
\* operation, the patch handler and the flush loop: when the hub takes a
\* patch, either it has taken none before or the last one it took is at
\* least the interval old.
C21_SendsAnIntervalApart ==
    [][twin'.sent.n > twin.sent.n =>
          \/ twin.sent.n = 0
          \/ now - twin.last_report_time >= MIN_REPORT_INTERVAL]_vars

\* C22: report calls made within one interval result in one network send
\* with the latest value of each key. Of two calls of a connected device
\* with no tick of the clock between them, the first has performed no send
\* of its own: both are queued, and the buffer one later send will carry
\* holds the value of the second.
C22_RapidCallsOneSend ==
    [][(/\ twin.device_client
        /\ ret.op \in {"toggle_cloud", "toggle_cloud_end"}
        /\ ret'.op = "toggle_cloud") =>
          /\ ret.op = "toggle_cloud" /\ ret.val = "queued"
          /\ ret'.val = "queued"
          /\ twin'.pending["cloud_enabled"] = PyBool(config_store'.cloud_enabled)]_vars

\* C23: once the sends attempted in a minute exceed the cap a minute, no
\* send of reported properties is attempted by any path until a cooldown
\* of several minutes is over: the sends begun within one minute are never
\* more than one above the cap.
C23_NoSendBeyondCap ==
    inflight.attempts.n <= PerMinuteCap + 1

\* C24: no update passed to the report operation is lost. When a call that
\* reports cloud_enabled has been made, the reported value is pending for
\* the key or is the value the send in flight carries for it, so that a
\* later successful send can carry it, also when the client was not
\* connected at the call.
C24_NoUpdateLost ==
    ret.op = "toggle_cloud" =>
       LET value == PyBool(config_store.cloud_enabled)
           held(d) == "cloud_enabled" \in DOMAIN d /\ d["cloud_enabled"] = value
       IN held(twin.pending) \/ (inflight.route.busy /\ held(inflight.route.to_send))

\* C25: an init_iothub that finds no device connection string, cannot
\* create the client or cannot connect returns false; and a call that
\* returns false leaves the process not connected, starts no keepalive
\* thread, and changes neither alarm_config nor the events, the monitor
\* thread or its stop flag.
C25_InitFailureDisables ==
    [][ret'.op = "init_iothub" =>
          /\ (\/ ~twin.available
              \/ \E outcome \in {"create_fails", "connect_fails"} :
                    InitIothub(outcome, Patch({}, PyNone, 0, TRUE), FALSE)) =>
                ret'.val = "false"
          /\ ret'.val = "false" =>
                /\ ~is_connected(twin', config_store')
                /\ ~config_store'.iothub_connected
                /\ twin'.listener = twin.listener
                /\ twin'.listener # "alive"
                /\ UNCHANGED <<alarm_config, events, bg_thread, stop_flag, cycle_wake>>]_vars

\* init_iothub has just returned false for a connection that failed, with
\* the client already assigned, while an armed alarm is being monitored.
C25_Witness ==
    /\ ret.op = "init_iothub"
    /\ ret.val = "false"
    /\ twin.device_client
    /\ ~is_connected(twin, config_store)
    /\ twin.listener = "none"
    /\ alarm_config.enabled
    /\ bg_thread = "alive"

\* C26: in no reachable state is the alarm triggered while it is not
\* enabled, whatever the interleaving of a check_alarm_trigger with the
\* requests that disable or set the alarm.
C26_TriggeredOnlyWhileEnabled ==
    alarm_config.triggered => alarm_config.enabled

\* C27: an iteration of the monitor that runs with the provider connected
\* and the alarm enabled, untriggered and holding a valid wake time, at or
\* after the wake datetime the alarm was armed for, leaves the alarm
\* triggered, whatever the sample it fetched.
C27_MonitorTriggersByWakeTime ==
    [][(/\ ret'.op = "monitor"
        /\ config_store.fitbit_connected
        /\ alarm_config.enabled
        /\ ~alarm_config.triggered
        /\ cycle_wake # 0
        /\ now >= cycle_wake) => alarm_config'.triggered]_vars

\* C28: in every reachable state in which the alarm is enabled and not
\* triggered, the monitor thread is alive and its stop flag is clear.
C28_MonitorAliveWhileArmed ==
    (alarm_config.enabled /\ ~alarm_config.triggered) =>
        (bg_thread = "alive" /\ ~stop_flag)

\* C29: every iteration of the monitor that starts with the provider
\* connected and the alarm enabled, untriggered and holding a wake time, and
\* whose fetch gives a sample, calls check_alarm_trigger, inside the wake
\* window or outside it: the call stamps last_check with the clock.
C29_EveryIterationChecks ==
    [][\A sample \in PredictorLabels, sink_ok \in BOOLEAN :
          (/\ MonitorIteration(sample, sink_ok)
           /\ config_store.fitbit_connected
           /\ alarm_config.enabled
           /\ ~alarm_config.triggered
           /\ Truthy(alarm_config.wake_time)) => alarm_config'.last_check = now]_vars

\* C30: an iteration of the monitor that takes triggered from false to true
\* records one 'triggered' event in that iteration and goes on to the
\* publish of the alert, whether or not the event sink works.
C30_TriggerRecorded ==
    [][(/\ ret'.op = "monitor"
        /\ ~alarm_config.triggered
        /\ alarm_config'.triggered) =>
          /\ events' = save_alarm_event(events, "triggered")
          /\ ret'.val = alarm_config'.trigger_reason]_vars

\* C31: once a stop has been requested for the monitor loop or for the
\* keepalive loop, the thread begins no new iteration (no iteration of the
\* monitor and no flush start from a state whose stop flag is set) and it
\* eventually reaches its terminated state.
C31_StoppedLoopsTerminate ==
    /\ [][/\ (stop_flag /\ ret' # ret) => ret'.op # "monitor"
          /\ (twin.stop_twin_listener /\ ret' # ret) =>
                ~(ret'.op = "keepalive" /\ ret'.val \in {"idle", "sending"})]_vars
    /\ (bg_thread = "alive" /\ stop_flag) ~> (bg_thread = "dead")
    /\ (twin.listener = "alive" /\ twin.stop_twin_listener) ~> (twin.listener = "dead")

\* Both loops were stopped while alive, the keepalive loop with its flush
\* still in flight, and both have terminated.
C31_Witness ==
    /\ bg_thread = "dead"
    /\ stop_flag
    /\ twin.listener = "dead"
    /\ twin.stop_twin_listener
    /\ twin.sent.n > 0
    /\ events.last = "disabled"

\* C32: after stop_iothub, and until init_iothub is called again, the
\* subsystem is not connected and no call of the report operation or of the
\* patch handler begins a network send.
C32_NoSendAfterShutdown ==
    [][twin.stop_twin_listener =>
          /\ ~is_connected(twin, config_store)
          /\ ret' # ret => ret'.val # "sending"]_vars

\* C33: in every reachable state an enabled alarm holds a wake_time that is
\* a string and parses as a time of day.
C33_EnabledHasValidWakeTime ==
    alarm_config.enabled =>
        /\ alarm_config.wake_time.t = "str"
        /\ strptime(alarm_config.wake_time).exc = "none"

\* What C34 says of snooze_alarm(m) called in the current state: the alarm
\* is left enabled and not triggered, get_alarm_status reports in_window
\* exactly when m <= window_minutes, and in that case a check with a fair or
\* poor sample at any instant from now on and before now + m minutes
\* triggers with light_sleep_detected.
snooze_rearms(m) ==
    LET r == snooze_alarm(alarm_config, now, m)
        new_wake == (now \div SecondsPerMinute + m) * SecondsPerMinute
    IN /\ Truthy(r.ret)
       /\ r.cfg.enabled
       /\ ~r.cfg.triggered
       /\ get_alarm_status(r.cfg, now).in_window = "true" <=> m <= alarm_config.window_minutes
       /\ m <= alarm_config.window_minutes =>
             \A i \in 1..Len(Instants), q \in {"fair", "poor"} :
                (now <= Instants[i] /\ Instants[i] < new_wake) =>
                   LET c == check_alarm_trigger(r.cfg, Instants[i], q, FALSE)
                   IN /\ c.ret = "light_sleep_detected"
                      /\ c.cfg.triggered

\* The minutes of a day: wake_time is a time of day, "%H:%M".
MinutesPerDay == 24 * 60

\* C34: snooze_alarm(m) on an enabled and triggered alarm re-arms it as
\* described above for every m >= 1, snoozes of more than a day included.
C34_SnoozeRearmsAnyLength ==
    (alarm_config.enabled /\ alarm_config.triggered) =>
        \A m \in (1..MaxSnoozeChecked)
                 \cup ((MinutesPerDay + 1)..(MinutesPerDay + MaxSnoozeChecked)) :
           snooze_rearms(m)

\* C34, amended: snooze_alarm(m) on an enabled and triggered alarm re-arms
\* it as described above for every m of at least one minute and less than
\* a day; and the snooze the route has just answered left the alarm enabled
\* and not triggered.
C34_SnoozeRearms ==
    /\ (alarm_config.enabled /\ alarm_config.triggered) =>
          \A m \in (1..MaxSnoozeChecked)
                   \cup ((MinutesPerDay - MaxSnoozeChecked)..(MinutesPerDay - 1)) :
             snooze_rearms(m)
    /\ (ret.op = "snooze" /\ ret.val = "200") =>
          /\ alarm_config.enabled
          /\ ~alarm_config.triggered

\* A triggered alarm has just been snoozed by 9 minutes, one second past
\* the minute, and the clock is inside its window of 15 minutes.
C34_Witness ==
    /\ ret.op = "snooze"
    /\ ret.val = "200"
    /\ now % SecondsPerMinute = 1
    /\ alarm_config.window_minutes = 15
    /\ strptime(alarm_config.wake_time).m = ((now \div SecondsPerMinute) + 9) % 60
    /\ get_alarm_status(alarm_config, now).in_window = "true"
    /\ check_alarm_trigger(alarm_config, now, "poor", FALSE).ret = "light_sleep_detected"

\* C35: for the alarm of every reachable state that is enabled, not
\* triggered and holds a valid wake_time, and for every instant other than
\* the wake instant itself, get_alarm_status and check_alarm_trigger derive
\* the same wake datetime, and in_window is true if and only if a check with
\* a light-sleep sample triggers with light_sleep_detected; when it is not,
\* the check does not trigger.
C35_StatusAgreesWithCheck ==
    (/\ alarm_config.enabled
     /\ ~alarm_config.triggered
     /\ Truthy(alarm_config.wake_time)
     /\ strptime(alarm_config.wake_time).exc = "none") =>
        \A i \in 1..Len(Instants) :
           LET t == Instants[i]
               p == strptime(alarm_config.wake_time)
               status == get_alarm_status(alarm_config, t)
           IN t # combine(t, p) =>
                 /\ status_wake_datetime(alarm_config, t, p) = check_wake_datetime(t, p)
                 /\ \A sample \in {<<"poor", FALSE>>, <<"Fair", FALSE>>, <<"good", TRUE>>} :
                       /\ light_condition(sample[1], sample[2])
                       /\ LET c == check_alarm_trigger(alarm_config, t, sample[1], sample[2])
                          IN /\ status.in_window = "true" <=> c.ret = "light_sleep_detected"
                             /\ status.in_window = "false" <=> c.ret = "none"

\* An alarm for 00:10 with a window of 15 minutes is armed and the clock is
\* at 00:05, inside the window: the status says so and a check of a poor
\* sample would trigger; five minutes earlier than the clock's first visit
\* of the day after, neither would.
C35_Witness ==
    /\ alarm_config.enabled
    /\ ~alarm_config.triggered
    /\ alarm_config.wake_time = PyStr(<<"0", "0", ":", "1", "0">>)
    /\ alarm_config.window_minutes = 15
    /\ now = At(2, 0, 5, 0)
    /\ get_alarm_status(alarm_config, now).in_window = "true"
    /\ check_alarm_trigger(alarm_config, now, "poor", FALSE).ret = "light_sleep_detected"
    /\ get_alarm_status(alarm_config, At(1, 23, 50, 0)).in_window = "false"

\* C36: every step leaves the event log as it was or appends one event to
\* it; a 'set' event is appended only by a POST /api/alarm whose set_alarm
\* returned true, a 'snoozed' event only by a snooze that returned a time, a
\* 'triggered' event only by a check or a monitor iteration whose
\* check_alarm_trigger returned a trigger; and a rejected request appends
\* nothing.
C36_EventsFollowTransitions ==
    [][/\ \/ events' = events
          \/ \E event_type \in {"set", "disabled", "snoozed", "dismissed", "triggered"} :
                events' = save_alarm_event(events, event_type)
       /\ (events' # events /\ events'.last = "set") =>
             /\ ret'.op = "post_alarm" /\ ret'.val = "200"
             /\ alarm_config'.enabled /\ ~alarm_config'.triggered
             /\ strptime(alarm_config'.wake_time).exc = "none"
       /\ (events' # events /\ events'.last = "snoozed") =>
             /\ ret'.op = "snooze" /\ ret'.val = "200"
             /\ alarm_config.triggered
             /\ Truthy(ret'.time) /\ alarm_config'.wake_time = ret'.time
       /\ (events' # events /\ events'.last = "triggered") =>
             /\ ret'.op \in {"alarm_check", "monitor"}
             /\ ret'.val \in {"wake_time_reached", "light_sleep_detected"}
             /\ ~alarm_config.triggered /\ alarm_config'.triggered
       /\ (\/ ret'.op = "post_alarm" /\ ret'.val \in {"400", "500"}
           \/ ret'.op = "snooze" /\ ret'.val = "400"
           \/ ret'.op = "alarm_check" /\ ret'.val = "none"
           \/ ret'.op = "get_alarm") => events' = events]_vars

\* The log holds a 'set', a 'triggered' and a 'snoozed' event, and a POST
\* /api/alarm that was rejected has just left it as it was.
C36_Witness ==
    /\ ret.op = "post_alarm"
    /\ ret.val = "400"
    /\ events = [n |-> 3, last |-> "snoozed"]
    /\ alarm_config.enabled

\* C37: handle_direct_method answers 200 for getStatus, setCloudEnabled,
\* triggerFetch and for setAlarm with a mapping payload, 400 for setAlarm
\* with any other payload and 404 for every other method name; no call
\* changes alarm_config, the events or the twin, and only setCloudEnabled
\* changes config_store, in cloud_enabled alone.
C37_DirectMethodFrame ==
    [][/\ \A name \in DirectMethods, d \in BOOLEAN, e \in BOOLEAN :
             DirectMethod(name, d, e) =>
                /\ ret'.val = "200" <=>
                      \/ name \in {"getStatus", "setCloudEnabled", "triggerFetch"}
                      \/ name = "setAlarm" /\ d
                /\ ret'.val = "400" <=> (name = "setAlarm" /\ ~d)
                /\ ret'.val = "404" <=>
                      name \notin {"getStatus", "setCloudEnabled", "triggerFetch", "setAlarm"}
                /\ name # "setCloudEnabled" => config_store' = config_store
       /\ ret'.op = "direct_method" =>
             /\ ret'.val \in {"200", "400", "404"}
             /\ UNCHANGED <<alarm_config, events, twin, bg_thread, stop_flag, cycle_wake>>
             /\ ret'.val # "200" => config_store' = config_store
             /\ [config_store' EXCEPT !.cloud_enabled = TRUE] =
                   [config_store EXCEPT !.cloud_enabled = TRUE]]_vars

\* A direct method has just been answered with 400 (setAlarm without a
\* mapping) while an alarm is armed and cloud_enabled was switched off by an
\* earlier setCloudEnabled.
C37_Witness ==
    /\ ret.op = "direct_method"
    /\ ret.val = "400"
    /\ ~config_store.cloud_enabled
    /\ alarm_config.enabled
    /\ alarm_config.wake_time = PyStr(<<"0", "0", ":", "1", "9">>)

\* C38: snooze_count never exceeds max_snoozes and never decreases, so at
\* most max_snoozes snoozes are accepted; a refused snooze returns False
\* with the count at max_snoozes and changes nothing of the controller; an
\* accepted snooze adds one to the count, leaves alarm_active false and
\* starts exactly one timer, due duration_minutes later, that runs
\* trigger_alarm.
C38_SnoozeLimit ==
    /\ [](controller.snooze_count <= max_snoozes)
    /\ [][/\ controller'.snooze_count >= controller.snooze_count
          /\ (ret'.op = "edge_snooze" /\ ret'.val = "false") =>
                /\ controller.snooze_count = max_snoozes
                /\ controller' = controller
          /\ (ret'.op = "edge_snooze" /\ ret'.val = "true") =>
                /\ controller'.snooze_count = controller.snooze_count + 1
                /\ ~controller'.alarm_active
                /\ controller'.timers =
                      Append(controller.timers, now + DefaultSnoozeMinutes * SecondsPerMinute)
          /\ controller'.snooze_count # controller.snooze_count => ret'.op = "edge_snooze"
          /\ Len(controller'.timers) > Len(controller.timers) => ret'.op = "edge_snooze"]_vars

\* A fourth snooze has just been refused while the alarm, raised again by
\* the timer of an earlier snooze, is sounding and a later timer is pending.
C38_Witness ==
    /\ ret.op = "edge_snooze"
    /\ ret.val = "false"
    /\ controller.snooze_count = max_snoozes
    /\ controller.alarm_active
    /\ Len(controller.timers) = 1
====
